---------------------------- MODULE Spec2Model ----------------------------
(***************************************************************************)
(* Model of the FastAPI music service of gcs-music-streaming/main.py:      *)
(* the GPT response cache, the signed-URL cache, the recent-track deque,   *)
(* the classifier retry loop, the keyword post-processing and the          *)
(* /api/analyze and /api/cache/clear handlers.                             *)
(*                                                                         *)
(* The service runs under uvicorn with one worker (run_server.py) and its  *)
(* handlers are coroutines that never await: a handler runs to completion  *)
(* before the next one starts.  The model therefore has one handler in     *)
(* flight; its position is pc.  Requests that arrive while it runs wait in *)
(* `pending` until the event loop is free.  Wall-clock time (time.time())  *)
(* is `now`.                                                               *)
(***************************************************************************)
EXTENDS Integers, Sequences, FiniteSets, TLC

(***************************************************************************)
(* Bounds of the model.  The four cache parameters of main.py:178-181 are  *)
(* scaled down (100 entries, 24 h, 50 min, 10 tracks in the source): the   *)
(* code only compares against them, so the model keeps the comparisons and *)
(* shrinks the numbers.  `now` counts units of the scale of the two expiry *)
(* windows.  A backoff sleep lasts seconds, far less than a unit: it is    *)
(* recorded with its length, and the time that passes during it is part of *)
(* the clock advancing at that position (Tick).                            *)
(***************************************************************************)
GPT_CACHE_MAX_SIZE == 2
GPT_CACHE_EXPIRY == 2
URL_CACHE_EXPIRY == 1
RECENT_TRACKS_SIZE == 2
MaxTime == 3
MaxTextLen == 3
MaxPending == 1

\* analyze_scene_with_gpt(prompt, retry_count = 3)
retry_count == 3

\* URL_CACHE_EXPIRY_MINUTES of main.py and the validity generate_signed_url
\* signs for (expiration_minutes = 60), in minutes: URL_CACHE_EXPIRY units of
\* `now` are URL_CACHE_EXPIRY_MINUTES minutes
URL_CACHE_EXPIRY_MINUTES == 50

expiration_minutes == 60

(***************************************************************************)
(* Texts.  A prompt is a sequence of tokens; a keyword is a sequence of    *)
(* tokens and `keyword in prompt` is contiguous-subsequence search, so the *)
(* containments between keywords of the source survive: "gunggeum" (U+AD81 *)
(* U+AE08) is a prefix of "gunggeum"+"han" (U+AD81 U+AE08 U+D55C) and      *)
(* "ginjang" (U+AE34 U+C7A5) of "ginjang"+"gam" (U+AE34 U+C7A5 U+AC10).    *)
(* "X" is a Latin capital, the only kind of character str.lower() changes. *)
(***************************************************************************)
Tokens == {"hogisim", "gunggeum", "han", "sinbi", "ginjang", "gam",
           "duryeoum", "gongpo", "museoun", "seomtteuk", "X"}

RECURSIVE SeqsUpTo(_, _)
SeqsUpTo(S, n) ==
    IF n = 0 THEN {<< >>}
    ELSE LET shorter == SeqsUpTo(S, n - 1)
         IN  shorter \cup {Append(s, x) : s \in {t \in shorter : Len(t) = n - 1}, x \in S}

\* str.lower()
Lower(text) == [i \in 1..Len(text) |-> IF text[i] = "X" THEN "x" ELSE text[i]]

\* `keyword in text` for Python strings
Contains(text, keyword) ==
    \E i \in 0..(Len(text) - Len(keyword)) :
        \A j \in 1..Len(keyword) : text[i + j] = keyword[j]

\* (variant of mood_keywords in which the horror list lost its first keyword)
mood_keywords_short_horror ==
    << [mood |-> "mysterious", keyword |-> <<"hogisim">>],
       [mood |-> "mysterious", keyword |-> <<"gunggeum">>],
       [mood |-> "mysterious", keyword |-> <<"sinbi">>],
       [mood |-> "curious",    keyword |-> <<"hogisim">>],
       [mood |-> "curious",    keyword |-> <<"gunggeum", "han">>],
       [mood |-> "suspense",   keyword |-> <<"ginjang">>],
       [mood |-> "suspense",   keyword |-> <<"ginjang", "gam">>],
       [mood |-> "horror",     keyword |-> <<"gongpo">>],
       [mood |-> "horror",     keyword |-> <<"museoun">>],
       [mood |-> "horror",     keyword |-> <<"seomtteuk">>] >>

\* (variant of mood_keywords with the horror list moved to the front, so that a
\* horror keyword is met before a mysterious one)
mood_keywords_horror_first ==
    << [mood |-> "horror",     keyword |-> <<"duryeoum">>],
       [mood |-> "horror",     keyword |-> <<"gongpo">>],
       [mood |-> "horror",     keyword |-> <<"museoun">>],
       [mood |-> "horror",     keyword |-> <<"seomtteuk">>],
       [mood |-> "suspense",   keyword |-> <<"ginjang">>],
       [mood |-> "suspense",   keyword |-> <<"ginjang", "gam">>],
       [mood |-> "mysterious", keyword |-> <<"gunggeum">>],
       [mood |-> "mysterious", keyword |-> <<"sinbi">>],
       [mood |-> "curious",    keyword |-> <<"gunggeum", "han">>] >>

\* (variant of mood_keywords with the curious list in front of the mysterious
\* one)
mood_keywords_curious_first ==
    << [mood |-> "curious",    keyword |-> <<"hogisim">>],
       [mood |-> "curious",    keyword |-> <<"gunggeum", "han">>],
       [mood |-> "mysterious", keyword |-> <<"hogisim">>],
       [mood |-> "mysterious", keyword |-> <<"gunggeum">>],
       [mood |-> "mysterious", keyword |-> <<"sinbi">>],
       [mood |-> "suspense",   keyword |-> <<"ginjang">>],
       [mood |-> "suspense",   keyword |-> <<"ginjang", "gam">>],
       [mood |-> "horror",     keyword |-> <<"duryeoum">>],
       [mood |-> "horror",     keyword |-> <<"gongpo">>],
       [mood |-> "horror",     keyword |-> <<"museoun">>],
       [mood |-> "horror",     keyword |-> <<"seomtteuk">>] >>

\* mood_keywords of post_process_mood, flattened in dict iteration order
mood_keywords ==
    << [mood |-> "mysterious", keyword |-> <<"hogisim">>],
       [mood |-> "mysterious", keyword |-> <<"gunggeum">>],
       [mood |-> "mysterious", keyword |-> <<"sinbi">>],
       [mood |-> "curious",    keyword |-> <<"hogisim">>],
       [mood |-> "curious",    keyword |-> <<"gunggeum", "han">>],
       [mood |-> "suspense",   keyword |-> <<"ginjang">>],
       [mood |-> "suspense",   keyword |-> <<"ginjang", "gam">>],
       [mood |-> "horror",     keyword |-> <<"duryeoum">>],
       [mood |-> "horror",     keyword |-> <<"gongpo">>],
       [mood |-> "horror",     keyword |-> <<"museoun">>],
       [mood |-> "horror",     keyword |-> <<"seomtteuk">>] >>

\* the list of the inner any(...) re-check
ExplicitHorror == {<<"duryeoum">>, <<"gongpo">>, <<"museoun">>, <<"seomtteuk">>}

(***************************************************************************)
(* Dicts.  A parsed classifier reply is a function from key names to       *)
(* values; a key that is missing is missing from the domain.               *)
(***************************************************************************)
EmptyDict == [k \in {} |-> "None"]

HasKey(d, k) == k \in DOMAIN d

\* bool(d) for a dict
Truthy(d) == DOMAIN d # {}

FullDict(mood) ==
    [primary_mood |-> mood, secondary_mood |-> "None", intensity |-> "0.7",
     emotional_tags |-> <<"tag">>, reasoning |-> "gpt"]

\* (variant of DefaultAnalysis with another mood)
DefaultAnalysisNeutral ==
    [primary_mood |-> "neutral", secondary_mood |-> "None", intensity |-> "0.5",
     emotional_tags |-> << >>, reasoning |-> "fallback"]

\* the literal returned when every attempt failed
DefaultAnalysis ==
    [primary_mood |-> "peaceful", secondary_mood |-> "None", intensity |-> "0.5",
     emotional_tags |-> << >>, reasoning |-> "fallback"]

\* (variant of SetKey that keeps no other key of the dict)
SetKeyOnly(d, k, v) == [x \in {k} |-> v]

\* d[k] = v
SetKey(d, k, v) == [x \in DOMAIN d \cup {k} |-> IF x = k THEN v ELSE d[x]]

(***************************************************************************)
(* post_process_mood.  The result is [raised, analysis]: raised is TRUE    *)
(* when analysis['primary_mood'] is evaluated on a dict without that key   *)
(* (KeyError).  The scan visits the (mood, keyword) pairs in order and     *)
(* returns at the first override.                                          *)
(***************************************************************************)
RECURSIVE ScanKeywords(_, _, _)
ScanKeywords(i, analysis, prompt_lower) ==
    IF i > Len(mood_keywords) THEN [raised |-> FALSE, analysis |-> analysis]
    ELSE LET mood    == mood_keywords[i].mood
             keyword == mood_keywords[i].keyword
         IN  IF ~Contains(prompt_lower, keyword)
             THEN ScanKeywords(i + 1, analysis, prompt_lower)
             ELSE IF mood = "horror"
             THEN IF ~HasKey(analysis, "primary_mood")
                  THEN [raised |-> TRUE, analysis |-> analysis]
                  ELSE IF analysis["primary_mood"] # "horror"
                          /\ \E k \in ExplicitHorror : Contains(prompt_lower, k)
                  THEN [raised |-> FALSE,
                        analysis |-> SetKey(analysis, "primary_mood", mood)]
                  ELSE ScanKeywords(i + 1, analysis, prompt_lower)
             ELSE IF mood \in {"mysterious", "curious"}
             THEN IF ~HasKey(analysis, "primary_mood")
                  THEN [raised |-> TRUE, analysis |-> analysis]
                  ELSE IF analysis["primary_mood"] = "horror"
                  THEN [raised |-> FALSE,
                        analysis |-> SetKey(analysis, "primary_mood", mood)]
                  ELSE ScanKeywords(i + 1, analysis, prompt_lower)
             ELSE ScanKeywords(i + 1, analysis, prompt_lower)

post_process_mood(analysis, original_prompt) ==
    ScanKeywords(1, analysis, Lower(original_prompt))


(***************************************************************************)
(* The static tables.  MUSIC_LIBRARY keeps the folders of each mood (the   *)
(* keywords are only echoed by /api/moods).                                *)
(***************************************************************************)
MUSIC_LIBRARY ==
    [peaceful    |-> <<"Miscellaneous_Chill_mp3", "Miscellaneous_Classical_mp3">>,
     romantic    |-> <<"romantic", "Romantic_Sentimental_mp3">>,
     mysterious  |-> <<"Underscoring_mp3", "Electronic_mp3">>,
     suspense    |-> <<"Underscoring_mp3", "Epic_Dramatic_mp3">>,
     horror      |-> <<"Horror_mp3">>,
     action      |-> <<"Epic_Dramatic_mp3", "Electronic_mp3">>,
     fantasy     |-> <<"Fantasy_mp3", "World_mp3">>,
     epic        |-> <<"Epic_Dramatic_mp3">>,
     comedy      |-> <<"Comedy_mp3", "Uplifting_mp3">>,
     uplifting   |-> <<"Uplifting_mp3", "Electronic_mp3">>,
     sad         |-> <<"Romantic_Sentimental_mp3", "Underscoring_mp3">>,
     exploration |-> <<"Fantasy_mp3", "World_mp3", "Miscellaneous_World_Folk_mp3">>,
     dramatic    |-> <<"Epic_Dramatic_mp3", "Romantic_Sentimental_mp3">>,
     tension     |-> <<"Underscoring_mp3", "Electronic_mp3">>,
     wonder      |-> <<"Fantasy_mp3", "Uplifting_mp3">>,
     curious     |-> <<"Underscoring_mp3", "World_mp3">>,
     isolation   |-> <<"Underscoring_mp3", "Miscellaneous_Chill_mp3">>,
     nostalgic   |-> <<"Miscellaneous_Classical_mp3", "Miscellaneous_Jazz_mp3">>,
     dark_comedy |-> <<"Comedy_mp3", "Underscoring_mp3">>]

\* (variant of MOOD_SIMILARITY whose "horror" entry lists a mood that is not a key
\* of MUSIC_LIBRARY)
MOOD_SIMILARITY_unknown ==
    [peaceful    |-> <<"nostalgic", "isolation", "romantic">>,
     romantic    |-> <<"peaceful", "sad", "nostalgic">>,
     mysterious  |-> <<"curious", "suspense", "wonder">>,
     suspense    |-> <<"tension", "mysterious", "horror">>,
     horror      |-> <<"thriller", "tension", "dark_comedy">>,
     action      |-> <<"epic", "tension", "uplifting">>,
     fantasy     |-> <<"wonder", "exploration", "mysterious">>,
     epic        |-> <<"action", "dramatic", "fantasy">>,
     comedy      |-> <<"uplifting", "dark_comedy", "peaceful">>,
     uplifting   |-> <<"comedy", "action", "wonder">>,
     sad         |-> <<"romantic", "nostalgic", "isolation">>,
     exploration |-> <<"fantasy", "wonder", "curious">>,
     dramatic    |-> <<"epic", "sad", "romantic">>,
     tension     |-> <<"suspense", "action", "horror">>,
     wonder      |-> <<"fantasy", "exploration", "uplifting">>,
     curious     |-> <<"mysterious", "exploration", "wonder">>,
     isolation   |-> <<"sad", "peaceful", "nostalgic">>,
     nostalgic   |-> <<"sad", "romantic", "peaceful">>,
     dark_comedy |-> <<"comedy", "horror", "suspense">>]

MOOD_SIMILARITY ==
    [peaceful    |-> <<"nostalgic", "isolation", "romantic">>,
     romantic    |-> <<"peaceful", "sad", "nostalgic">>,
     mysterious  |-> <<"curious", "suspense", "wonder">>,
     suspense    |-> <<"tension", "mysterious", "horror">>,
     horror      |-> <<"suspense", "tension", "dark_comedy">>,
     action      |-> <<"epic", "tension", "uplifting">>,
     fantasy     |-> <<"wonder", "exploration", "mysterious">>,
     epic        |-> <<"action", "dramatic", "fantasy">>,
     comedy      |-> <<"uplifting", "dark_comedy", "peaceful">>,
     uplifting   |-> <<"comedy", "action", "wonder">>,
     sad         |-> <<"romantic", "nostalgic", "isolation">>,
     exploration |-> <<"fantasy", "wonder", "curious">>,
     dramatic    |-> <<"epic", "sad", "romantic">>,
     tension     |-> <<"suspense", "action", "horror">>,
     wonder      |-> <<"fantasy", "exploration", "uplifting">>,
     curious     |-> <<"mysterious", "exploration", "wonder">>,
     isolation   |-> <<"sad", "peaceful", "nostalgic">>,
     nostalgic   |-> <<"sad", "romantic", "peaceful">>,
     dark_comedy |-> <<"comedy", "horror", "suspense">>]

(***************************************************************************)
(* The caches.  gpt_cache is a Python dict: the model keeps its entries in *)
(* insertion order, which is the order min() scans them in.  url_cache is  *)
(* only looked up by key and is a function on the cached blob names.       *)
(***************************************************************************)
\* hashlib.md5(prompt).hexdigest(): a key that is a function of the prompt
\* alone and differs between the prompts of the model
get_prompt_hash(prompt) == <<"md5", prompt>>

KeyIndex(cache, key) ==
    IF \E i \in 1..Len(cache) : cache[i].key = key
    THEN CHOOSE i \in 1..Len(cache) : cache[i].key = key
    ELSE 0

RemoveAt(cache, i) == [j \in 1..(Len(cache) - 1) |-> IF j < i THEN cache[j] ELSE cache[j + 1]]

\* An optional value: None, or a value
None == [isNone |-> TRUE, val |-> EmptyDict]
Some(v) == [isNone |-> FALSE, val |-> v]

\* (variants of GptExpired with the comparison off by one, either way)
GptExpiredLate(t, timestamp) == t - timestamp > GPT_CACHE_EXPIRY + 1

GptExpiredEager(t, timestamp) == t - timestamp >= GPT_CACHE_EXPIRY

\* age_hours > GPT_CACHE_EXPIRY_HOURS, a float comparison
GptExpired(t, timestamp) == t - timestamp > GPT_CACHE_EXPIRY

\* get_cached_gpt_response at time t: the returned value and the cache after
\* (variant of get_cached_gpt_response that stamps the entry it returns with
\* the time of the read)
get_cached_gpt_response_touch(cache, prompt, t) ==
    LET i == KeyIndex(cache, get_prompt_hash(prompt))
    IN  IF i = 0 THEN [ret |-> None, cache |-> cache]
        ELSE IF GptExpired(t, cache[i].timestamp)
             THEN [ret |-> None, cache |-> RemoveAt(cache, i)]
             ELSE [ret |-> Some(cache[i].result),
                   cache |-> [cache EXCEPT ![i].timestamp = t]]

get_cached_gpt_response(cache, prompt, t) ==
    LET i == KeyIndex(cache, get_prompt_hash(prompt))
    IN  IF i = 0 THEN [ret |-> None, cache |-> cache]
        ELSE IF GptExpired(t, cache[i].timestamp)
             THEN [ret |-> None, cache |-> RemoveAt(cache, i)]
             ELSE [ret |-> Some(cache[i].result), cache |-> cache]

\* (variant of OldestIndex that takes max instead of min)
OldestIndexNewest(cache) ==
    CHOOSE i \in 1..Len(cache) :
        \A j \in 1..Len(cache) : cache[i].timestamp >= cache[j].timestamp

\* min(gpt_cache.keys(), key = timestamp): the first of the oldest in dict order
OldestIndex(cache) ==
    CHOOSE i \in 1..Len(cache) :
        /\ \A j \in 1..Len(cache) : cache[i].timestamp <= cache[j].timestamp
        /\ \A j \in 1..(i - 1) : cache[j].timestamp > cache[i].timestamp

\* gpt_cache[key] = {...}: an existing key keeps its place in the dict
StoreEntry(cache, entry) ==
    LET i == KeyIndex(cache, entry.key)
    IN  IF i = 0 THEN Append(cache, entry) ELSE [cache EXCEPT ![i] = entry]

\* (variant of cache_gpt_response that evicts at > instead of >=)
cache_gpt_response_gt(cache, prompt, result, t) ==
    LET entry  == [key |-> get_prompt_hash(prompt), result |-> result, timestamp |-> t]
        pruned == IF Len(cache) > GPT_CACHE_MAX_SIZE
                  THEN RemoveAt(cache, OldestIndex(cache))
                  ELSE cache
    IN  StoreEntry(pruned, entry)

\* cache_gpt_response at time t
cache_gpt_response(cache, prompt, result, t) ==
    LET entry  == [key |-> get_prompt_hash(prompt), result |-> result, timestamp |-> t]
        pruned == IF Len(cache) >= GPT_CACHE_MAX_SIZE
                  THEN RemoveAt(cache, OldestIndex(cache))
                  ELSE cache
    IN  StoreEntry(pruned, entry)

\* (variant of UrlExpired that expires an entry one unit late)
UrlExpiredLate(t, timestamp) == t - timestamp > URL_CACHE_EXPIRY + 1

\* (variant of UrlExpired that expires an entry at the end of its window)
UrlExpiredEager(t, timestamp) == t - timestamp >= URL_CACHE_EXPIRY

\* age_minutes > URL_CACHE_EXPIRY_MINUTES
UrlExpired(t, timestamp) == t - timestamp > URL_CACHE_EXPIRY

Drop(f, k) == [x \in DOMAIN f \ {k} |-> f[x]]

\* get_cached_signed_url at time t
get_cached_signed_url(cache, blob_name, t) ==
    IF blob_name \notin DOMAIN cache THEN [ret |-> None, cache |-> cache]
    ELSE IF UrlExpired(t, cache[blob_name].timestamp)
         THEN [ret |-> None, cache |-> Drop(cache, blob_name)]
         ELSE [ret |-> Some(cache[blob_name].url), cache |-> cache]

\* cache_signed_url at time t
cache_signed_url(cache, blob_name, url, t) ==
    [x \in DOMAIN cache \cup {blob_name} |->
        IF x = blob_name THEN [url |-> url, timestamp |-> t] ELSE cache[x]]

(***************************************************************************)
(* The catalog and the selector.  A blob name is its sequence of path      *)
(* components, so startswith(folder + '/') is "the first component is the  *)
(* folder and another follows".                                            *)
(***************************************************************************)
InFolder(file_path, folder) == Len(file_path) >= 2 /\ file_path[1] = folder

Range(s) == {s[i] : i \in 1..Len(s)}

\* (variant of get_files_from_folders that ignores the folders)
get_files_from_folders_all(files, folder_list) == files

\* GCSMusicManager.get_files_from_folders
get_files_from_folders(files, folder_list) ==
    LET Matches(f) == \E folder \in Range(folder_list) : InFolder(f, folder)
    IN  SelectSeq(files, Matches)

\* (variant of FirstSimilar that gives up after the first similar mood)
RECURSIVE FirstSimilarOnly(_, _, _)
FirstSimilarOnly(files, similar_moods, i) ==
    IF i > Len(similar_moods) \/ i > 1
    THEN [found |-> FALSE, raised |-> FALSE, mood |-> "", all_files |-> << >>]
    ELSE IF similar_moods[i] \notin DOMAIN MUSIC_LIBRARY
    THEN [found |-> FALSE, raised |-> TRUE, mood |-> "", all_files |-> << >>]
    ELSE LET fs == get_files_from_folders(files, MUSIC_LIBRARY[similar_moods[i]])
         IN  IF fs # << >>
             THEN [found |-> TRUE, raised |-> FALSE, mood |-> similar_moods[i], all_files |-> fs]
             ELSE FirstSimilarOnly(files, similar_moods, i + 1)

\* (variant of FirstSimilar that walks the similarity list from its end)
RECURSIVE FirstSimilarReversed(_, _, _)
FirstSimilarReversed(files, similar_moods, i) ==
    IF i > Len(similar_moods)
    THEN [found |-> FALSE, raised |-> FALSE, mood |-> "", all_files |-> << >>]
    ELSE LET similar_mood == similar_moods[Len(similar_moods) + 1 - i]
         IN  IF similar_mood \notin DOMAIN MUSIC_LIBRARY
             THEN [found |-> FALSE, raised |-> TRUE, mood |-> "", all_files |-> << >>]
             ELSE LET fs == get_files_from_folders(files, MUSIC_LIBRARY[similar_mood])
                  IN  IF fs # << >>
                      THEN [found |-> TRUE, raised |-> FALSE, mood |-> similar_mood,
                            all_files |-> fs]
                      ELSE FirstSimilarReversed(files, similar_moods, i + 1)

\* the loop over similar_moods: the first similar mood with files;
\* MUSIC_LIBRARY[similar_mood] raises KeyError for a mood that is not a key
RECURSIVE FirstSimilar(_, _, _)
FirstSimilar(files, similar_moods, i) ==
    IF i > Len(similar_moods)
    THEN [found |-> FALSE, raised |-> FALSE, mood |-> "", all_files |-> << >>]
    ELSE IF similar_moods[i] \notin DOMAIN MUSIC_LIBRARY
    THEN [found |-> FALSE, raised |-> TRUE, mood |-> "", all_files |-> << >>]
    ELSE LET fs == get_files_from_folders(files, MUSIC_LIBRARY[similar_moods[i]])
         IN  IF fs # << >>
             THEN [found |-> TRUE, raised |-> FALSE, mood |-> similar_moods[i], all_files |-> fs]
             ELSE FirstSimilar(files, similar_moods, i + 1)

\* (variant of ResolvePool that substitutes "romantic" for an unknown mood)
ResolvePoolRomantic(files, mood) ==
    LET m   == IF mood \in DOMAIN MUSIC_LIBRARY THEN mood ELSE "romantic"
        own == get_files_from_folders(files, MUSIC_LIBRARY[m])
        similar_moods == IF m \in DOMAIN MOOD_SIMILARITY THEN MOOD_SIMILARITY[m] ELSE << >>
        sim == FirstSimilar(files, similar_moods, 1)
    IN  IF own # << >> THEN [found |-> TRUE, raised |-> FALSE, mood |-> m, all_files |-> own]
        ELSE [found |-> sim.found, raised |-> sim.raised,
              mood |-> IF sim.found THEN sim.mood ELSE m, all_files |-> sim.all_files]

\* select_music_from_mood up to the 404: the mood adopted and its files;
\* similar_moods is MOOD_SIMILARITY.get(mood, [])
ResolvePool(files, mood) ==
    LET m   == IF mood \in DOMAIN MUSIC_LIBRARY THEN mood ELSE "peaceful"
        own == get_files_from_folders(files, MUSIC_LIBRARY[m])
        similar_moods == IF m \in DOMAIN MOOD_SIMILARITY THEN MOOD_SIMILARITY[m] ELSE << >>
        sim == FirstSimilar(files, similar_moods, 1)
    IN  IF own # << >> THEN [found |-> TRUE, raised |-> FALSE, mood |-> m, all_files |-> own]
        ELSE [found |-> sim.found, raised |-> sim.raised,
              mood |-> IF sim.found THEN sim.mood ELSE m, all_files |-> sim.all_files]

\* (variant of Candidates without the duplicate filter)
CandidatesUnfiltered(pool, recent) == pool

\* (variant of Candidates that filters a pool of any size and keeps the empty
\* result)
CandidatesStrict(pool, recent) ==
    LET NotRecent(f) == f \notin Range(recent)
    IN  SelectSeq(pool, NotRecent)

\* (variant of Candidates that only keeps out the track returned last)
CandidatesLastOnly(pool, recent) ==
    LET NotLast(f) == recent = << >> \/ f # recent[Len(recent)]
        available_files == SelectSeq(pool, NotLast)
    IN  IF Len(pool) > RECENT_TRACKS_SIZE /\ available_files # << >>
        THEN available_files ELSE pool

\* the duplicate filter: the list random.choice draws from
Candidates(pool, recent) ==
    LET NotRecent(f) == f \notin Range(recent)
        available_files == SelectSeq(pool, NotRecent)
    IN  IF Len(pool) > RECENT_TRACKS_SIZE /\ available_files # << >>
        THEN available_files ELSE pool

\* (variant of DequeAppend that drops the newest entry of a full deque)
DequeAppendDropNewest(recent, f) ==
    IF RECENT_TRACKS_SIZE = 0 THEN << >>
    ELSE IF Len(recent) >= RECENT_TRACKS_SIZE
    THEN Append(SubSeq(recent, 1, Len(recent) - 1), f)
    ELSE Append(recent, f)

\* deque(maxlen = RECENT_TRACKS_SIZE).append
DequeAppend(recent, f) ==
    IF RECENT_TRACKS_SIZE = 0 THEN << >>
    ELSE IF Len(recent) >= RECENT_TRACKS_SIZE THEN Append(Tail(recent), f)
    ELSE Append(recent, f)


(***************************************************************************)
(* The environment of the model.  A run is one of a few scenarios, fixed   *)
(* at start: which prompts clients send, what the classifier replies, what *)
(* the bucket holds and whether the signer may fail.  The code is the same *)
(* in all of them; a scenario only narrows the inputs it is driven with.   *)
(*   fill      many prompts, a classifier that always answers: the GPT     *)
(*             cache fills up and evicts                                   *)
(*   classify  a classifier that may raise, answer garbage, {} or a mood   *)
(*   url       a working classifier and a signer that may fail: the URL    *)
(*             cache and the recent tracks                                 *)
(*   moods     prompts with trigger keywords, a classifier that answers    *)
(*             horror, curious or a mood the library does not have         *)
(*   busy      clients that send requests while a handler is running, a    *)
(*             classifier that may raise or answer, a signer that may fail *)
(***************************************************************************)
Scenarios == {"fill", "classify", "url", "moods", "busy"}

ApiError   == [kind |-> "APIError", val |-> EmptyDict]
JsonError  == [kind |-> "JSONDecodeError", val |-> EmptyDict]
Parsed(d)  == [kind |-> "ok", val |-> d]

Prompts(e) ==
    CASE e = "fill"     -> { <<"X">>, <<"X", "X">>, <<"han">>, <<"gam">> }
      [] e = "classify" -> { <<"X">>, <<"hogisim">> }
      [] e = "url"      -> { <<"X">> }
      [] e = "moods"    -> { <<"hogisim">>, <<"hogisim", "duryeoum">> }
      [] e = "busy"     -> { <<"X">> }

\* one call of openai_client.chat.completions.create followed by json.loads:
\* the call raises, the content does not parse, or it parses to a dict
Replies(e) ==
    CASE e = "fill"     -> { Parsed(FullDict("curious")) }
      [] e = "classify" -> { ApiError, JsonError, Parsed(EmptyDict),
                             Parsed([reasoning |-> "gpt"]), Parsed(FullDict("horror")) }
      [] e = "url"      -> { Parsed(FullDict("curious")) }
      [] e = "moods"    -> { Parsed(FullDict("horror")), Parsed(FullDict("curious")),
                             Parsed(FullDict("zzz")) }
      [] e = "busy"     -> { ApiError, Parsed(FullDict("curious")) }

\* gcs_manager.all_files after construction
Catalog(e) ==
    CASE e = "fill"     -> << >>
      [] e = "classify" -> << >>
      [] e = "url"      -> << <<"Underscoring_mp3", "u1.mp3">>, <<"World_mp3", "w1.mp3">>,
                               <<"World_mp3", "w2.mp3">> >>
      [] e = "moods"    -> << <<"Underscoring_mp3", "u1.mp3">> >>
      [] e = "busy"     -> << <<"World_mp3", "w1.mp3">> >>

\* generate_signed_url returns a URL (TRUE) or None (FALSE)
SignerOutcomes(e) == IF e \in {"url", "busy"} THEN BOOLEAN ELSE {TRUE}

(***************************************************************************)
(* State.                                                                  *)
(*   env             the scenario of the run                               *)
(*   pending         the requests accepted while a handler is running, in  *)
(*                   the order the event loop will run their handlers      *)
(*   now, gpt_cache, url_cache, recent_tracks   the globals of main.py     *)
(*   all_files       gcs_manager.all_files, loaded at construction         *)
(*   pc, req         the handler in flight and its local variables         *)
(*   resp            the response of the last finished handler             *)
(*   obs, prev       what the running request and the one before it did    *)
(*                   (external calls, sleeps, cache reads): observations   *)
(*   pp              the inputs and results of post_process_mood applied   *)
(*                   on its own (specification SpecPP)                     *)
(***************************************************************************)
VARIABLES env, pending, now, gpt_cache, url_cache, recent_tracks, all_files, pc, req, resp, obs, prev, pp

vars == <<env, pending, now, gpt_cache, url_cache, recent_tracks, all_files, pc, req, resp, obs, prev, pp>>

NoFile == << >>

IdleReq ==
    [prompt |-> << >>, attempt |-> 0, last_error |-> "None", analysis |-> EmptyDict,
     aliased |-> FALSE,
     mood |-> "", selected_file |-> NoFile, streaming_url |-> [isNone |-> TRUE, blob |-> NoFile, minted |-> 0]]

IdleObs ==
    [gpt_calls |-> 0, failed |-> 0, sleeps |-> << >>, gpt_read |-> "none", url_read |-> "none",
     evicted |-> << >>, after_lookup |-> << >>, recent_before |-> << >>, signer_calls |-> 0,
     url_at |-> 0,
     outcome |-> "none", lookup_at |-> 0, entry_ts |-> 0 - 1, returned_at |-> 0]

NoPrev == [prompt |-> << >>, outcome |-> "none", gpt_calls |-> 0, truthy |-> FALSE,
           entry_ts |-> 0 - 1, returned_at |-> 0, mood |-> "", url_age |-> 0 - 1]

NoResp == [status |-> 0]

IdlePP == [stage |-> "off"]

Init ==
    /\ env \in Scenarios
    /\ pending = << >>
    /\ now = 0
    /\ gpt_cache = << >>
    /\ url_cache = [f \in {} |-> f]
    /\ recent_tracks = << >>
    /\ all_files = Catalog(env)
    /\ pc = "idle"
    /\ req = IdleReq
    /\ resp = NoResp
    /\ obs = IdleObs
    /\ prev = NoPrev
    /\ pp = IdlePP

\* the dict `analysis_dict` names: the cached object after a hit or a store,
\* the fresh default literal otherwise
Analysis ==
    IF req.aliased
    THEN gpt_cache[KeyIndex(gpt_cache, get_prompt_hash(req.prompt))].result
    ELSE req.analysis

\* the request ends: its response, and what the next request may compare with
Finish(response) ==
    /\ pc' = "idle"
    /\ resp' = response
    /\ req' = IdleReq
    /\ obs' = IdleObs
    /\ prev' = [prompt |-> req.prompt, outcome |-> obs.outcome,
                gpt_calls |-> obs.gpt_calls,
                truthy |-> obs.outcome \in {"hit", "stored"} /\ Truthy(Analysis),
                entry_ts |-> obs.entry_ts, returned_at |-> obs.returned_at,
                mood |-> IF response.status = 200 /\ "analysis" \in DOMAIN response
                         THEN response.analysis["primary_mood"] ELSE "",
                url_age |-> IF req.streaming_url.isNone THEN 0 - 1
                            ELSE obs.url_at - req.streaming_url.minted]

\* (variant of HttpError without the `except Exception` clause: a KeyError or
\* a validation error leaves the handler, status -1)
HttpErrorUncaught(status_code, detail) ==
    [status |-> IF detail \in {"KeyError", "ValidationError"} THEN 0 - 1 ELSE status_code,
     detail |-> detail]

\* raise HTTPException(status_code, detail) and the except clauses of analyze
HttpError(status_code, detail) == [status |-> status_code, detail |-> detail]

(***************************************************************************)
(* POST /api/analyze                                                       *)
(***************************************************************************)
\* a request is accepted while the handler of another runs: its own handler
\* starts when the event loop is free
Arrive(prompt) ==
    /\ env = "busy"
    /\ pc # "idle"
    /\ Len(pending) < MaxPending
    /\ pending' = Append(pending, prompt)
    /\ UNCHANGED <<env, now, gpt_cache, url_cache, recent_tracks, all_files, pc, req,
                   resp, obs, prev, pp>>

\* (variant of AnalyzeStart in which the handler of a waiting request starts
\* while another handler is between two of its steps)
AnalyzeStartPreempting(prompt) ==
    /\ now <= MaxTime
    /\ IF pending # << >>
       THEN prompt = Head(pending) /\ pending' = Tail(pending)
       ELSE pending' = pending
    /\ pc' = "gpt_lookup"
    /\ req' = [IdleReq EXCEPT !.prompt = prompt]
    /\ obs' = IdleObs
    /\ resp' = NoResp
    /\ UNCHANGED <<env, now, gpt_cache, url_cache, recent_tracks, all_files, prev, pp>>

\* the event loop starts the handler of the request that waited longest, or
\* of one that arrives now when none waits
AnalyzeStart(prompt) ==
    /\ pc = "idle"
    /\ now <= MaxTime
    /\ IF pending # << >>
       THEN prompt = Head(pending) /\ pending' = Tail(pending)
       ELSE pending' = pending
    /\ pc' = "gpt_lookup"
    /\ req' = [IdleReq EXCEPT !.prompt = prompt]
    /\ obs' = IdleObs
    /\ resp' = NoResp
    /\ UNCHANGED <<env, now, gpt_cache, url_cache, recent_tracks, all_files, prev, pp>>

\* analyze_scene_with_gpt: the cache check
GptLookup ==
    /\ pc = "gpt_lookup"
    /\ LET i == KeyIndex(gpt_cache, get_prompt_hash(req.prompt))
           r == get_cached_gpt_response(gpt_cache, req.prompt, now)
           cached_result == r.ret
           read == IF i = 0 THEN "absent"
                   ELSE IF cached_result.isNone THEN "expired" ELSE "hit"
       IN  /\ gpt_cache' = r.cache
           /\ IF ~cached_result.isNone /\ Truthy(cached_result.val)
              THEN /\ pc' = "post_process"
                   /\ req' = [req EXCEPT !.aliased = TRUE]
                   /\ obs' = [obs EXCEPT !.gpt_read = read, !.outcome = "hit",
                                         !.entry_ts = gpt_cache[i].timestamp,
                                         !.lookup_at = now, !.returned_at = now]
              ELSE /\ pc' = "gpt_call"
                   /\ req' = req
                   /\ obs' = [obs EXCEPT !.gpt_read = read, !.after_lookup = r.cache,
                                         !.lookup_at = now]
    /\ UNCHANGED <<env, pending, now, url_cache, recent_tracks, all_files, resp, prev, pp>>

\* (variant of GptSuccess that stores the default literal instead of the
\* parsed reply)
GptSuccessStoringDefault(reply) ==
    LET after == cache_gpt_response(gpt_cache, req.prompt, DefaultAnalysis, now)
    IN  /\ gpt_cache' = after
        /\ req' = [req EXCEPT !.aliased = TRUE]
        /\ obs' = [obs EXCEPT !.gpt_calls = @ + 1, !.outcome = "stored",
                     !.entry_ts = now, !.returned_at = now, !.after_lookup = << >>,
                     !.evicted = SelectSeq(gpt_cache,
                         LAMBDA e : \A j \in 1..Len(after) : after[j].key # e.key)]
        /\ pc' = "post_process"

\* the retry loop, an attempt that parsed: cache_gpt_response and return
GptSuccess(reply) ==
    LET after == cache_gpt_response(gpt_cache, req.prompt, reply.val, now)
    IN  /\ gpt_cache' = after
        /\ req' = [req EXCEPT !.aliased = TRUE]
        /\ obs' = [obs EXCEPT !.gpt_calls = @ + 1, !.outcome = "stored",
                     !.entry_ts = now, !.returned_at = now, !.after_lookup = << >>,
                     !.evicted = SelectSeq(gpt_cache,
                         LAMBDA e : \A j \in 1..Len(after) : after[j].key # e.key)]
        /\ pc' = "post_process"

\* (variant of GptRetry that sleeps 2 seconds after every failure)
GptRetryConstant(reply) ==
    LET wait_time == 2
    IN  /\ req' = [req EXCEPT !.attempt = @ + 1, !.last_error = reply.kind]
        /\ obs' = [obs EXCEPT !.gpt_calls = @ + 1, !.failed = @ + 1,
                              !.sleeps = Append(@, wait_time)]
        /\ pc' = "gpt_call"
        /\ gpt_cache' = gpt_cache

\* the retry loop, an attempt that raised with attempts left: time.sleep
GptRetry(reply) ==
    LET wait_time == (req.attempt + 1) * 2
    IN  /\ req' = [req EXCEPT !.attempt = @ + 1, !.last_error = reply.kind]
        /\ obs' = [obs EXCEPT !.gpt_calls = @ + 1, !.failed = @ + 1,
                              !.sleeps = Append(@, wait_time)]
        /\ pc' = "gpt_call"
        /\ gpt_cache' = gpt_cache

\* (variant of GptGiveUp that stores the default like a classifier result)
GptGiveUpCaching(reply) ==
    /\ req' = [req EXCEPT !.attempt = @ + 1, !.last_error = reply.kind, !.aliased = TRUE]
    /\ obs' = [obs EXCEPT !.gpt_calls = @ + 1, !.failed = @ + 1, !.outcome = "default",
                          !.returned_at = now]
    /\ pc' = "post_process"
    /\ gpt_cache' = cache_gpt_response(gpt_cache, req.prompt, DefaultAnalysis, now)

\* the retry loop, the last attempt raised: the default literal is returned
GptGiveUp(reply) ==
    /\ req' = [req EXCEPT !.attempt = @ + 1, !.last_error = reply.kind,
                          !.analysis = DefaultAnalysis, !.aliased = FALSE]
    /\ obs' = [obs EXCEPT !.gpt_calls = @ + 1, !.failed = @ + 1, !.outcome = "default",
                          !.returned_at = now]
    /\ pc' = "post_process"
    /\ gpt_cache' = gpt_cache

\* analyze_scene_with_gpt: one pass of the retry loop
GptAttempt(reply) ==
    /\ pc = "gpt_call"
    /\ IF reply.kind = "ok" THEN GptSuccess(reply)
       ELSE IF req.attempt < retry_count - 1 THEN GptRetry(reply)
       ELSE GptGiveUp(reply)
    /\ UNCHANGED <<env, pending, now, url_cache, recent_tracks, all_files, resp, prev, pp>>

\* analysis_dict = post_process_mood(analysis_dict, prompt): the dict is
\* changed in place, so a cached dict is changed in the cache
PostProcess ==
    /\ pc = "post_process"
    /\ LET r == post_process_mood(Analysis, req.prompt)
       IN  IF r.raised
           THEN /\ Finish(HttpError(500, "KeyError"))
                /\ UNCHANGED gpt_cache
           ELSE /\ pc' = "select"
                /\ IF req.aliased
                   THEN /\ gpt_cache' = [gpt_cache EXCEPT
                              ![KeyIndex(gpt_cache, get_prompt_hash(req.prompt))].result
                                  = r.analysis]
                        /\ req' = req
                   ELSE /\ gpt_cache' = gpt_cache
                        /\ req' = [req EXCEPT !.analysis = r.analysis]
                /\ UNCHANGED <<resp, prev, obs>>
    /\ UNCHANGED <<env, pending, now, url_cache, recent_tracks, all_files, pp>>

\* (variant of Select after which the handler reports the mood whose folders
\* the track came from)
SelectReportingAdopted ==
    /\ pc = "select"
    /\ IF ~HasKey(Analysis, "primary_mood")
       THEN /\ Finish(HttpError(500, "KeyError"))
            /\ UNCHANGED recent_tracks
       ELSE LET mood == Analysis["primary_mood"]
                pool == ResolvePool(all_files, mood)
                choices == Candidates(pool.all_files, recent_tracks)
            IN  IF pool.raised
                THEN /\ Finish(HttpError(500, "KeyError"))
                     /\ UNCHANGED recent_tracks
                ELSE IF ~pool.found
                THEN /\ Finish(HttpError(404, pool.mood))
                     /\ UNCHANGED recent_tracks
                ELSE \E n \in 1..Len(choices) :
                        /\ recent_tracks' = DequeAppend(recent_tracks, choices[n])
                        /\ req' = [req EXCEPT !.mood = pool.mood, !.selected_file = choices[n]]
                        /\ obs' = [obs EXCEPT !.recent_before = recent_tracks]
                        /\ pc' = "url_lookup"
                        /\ UNCHANGED <<resp, prev>>
    /\ UNCHANGED <<env, pending, now, gpt_cache, url_cache, all_files, pp>>

\* mood = analysis_dict['primary_mood']; select_music_from_mood(mood)
Select ==
    /\ pc = "select"
    /\ IF ~HasKey(Analysis, "primary_mood")
       THEN /\ Finish(HttpError(500, "KeyError"))
            /\ UNCHANGED recent_tracks
       ELSE LET mood == Analysis["primary_mood"]
                pool == ResolvePool(all_files, mood)
                choices == Candidates(pool.all_files, recent_tracks)
            IN  IF pool.raised
                THEN /\ Finish(HttpError(500, "KeyError"))
                     /\ UNCHANGED recent_tracks
                ELSE IF ~pool.found
                THEN /\ Finish(HttpError(404, pool.mood))
                     /\ UNCHANGED recent_tracks
                ELSE \E n \in 1..Len(choices) :
                        /\ recent_tracks' = DequeAppend(recent_tracks, choices[n])
                        /\ req' = [req EXCEPT !.mood = mood, !.selected_file = choices[n]]
                        /\ obs' = [obs EXCEPT !.recent_before = recent_tracks]
                        /\ pc' = "url_lookup"
                        /\ UNCHANGED <<resp, prev>>
    /\ UNCHANGED <<env, pending, now, gpt_cache, url_cache, all_files, pp>>

SomeUrl(blob, t) == [isNone |-> FALSE, blob |-> blob, minted |-> t]

\* (variant of UrlLookup that goes on to the signer whatever the cache holds)
UrlLookupSkipped ==
    /\ pc = "url_lookup"
    /\ url_cache' = url_cache
    /\ obs' = [obs EXCEPT !.url_read = "absent", !.url_at = now]
    /\ req' = req
    /\ pc' = "sign"
    /\ UNCHANGED <<env, pending, now, gpt_cache, recent_tracks, all_files, resp, prev, pp>>

\* cached_url = get_cached_signed_url(selected_file)
UrlLookup ==
    /\ pc = "url_lookup"
    /\ LET r == get_cached_signed_url(url_cache, req.selected_file, now)
           read == IF req.selected_file \notin DOMAIN url_cache THEN "absent"
                   ELSE IF r.ret.isNone THEN "expired" ELSE "hit"
       IN  /\ url_cache' = r.cache
           /\ obs' = [obs EXCEPT !.url_read = read, !.url_at = now]
           /\ IF ~r.ret.isNone
              THEN /\ req' = [req EXCEPT !.streaming_url = r.ret.val]
                   /\ pc' = "respond"
              ELSE /\ req' = req
                   /\ pc' = "sign"
    /\ UNCHANGED <<env, pending, now, gpt_cache, recent_tracks, all_files, resp, prev, pp>>

\* (variant of Sign that caches a URL for the track when the signer failed)
SignCachingFailure(signed) ==
    /\ pc = "sign"
    /\ obs' = [obs EXCEPT !.signer_calls = @ + 1, !.url_at = now]
    /\ url_cache' = cache_signed_url(url_cache, req.selected_file,
                                     SomeUrl(req.selected_file, now), now)
    /\ req' = IF signed THEN [req EXCEPT !.streaming_url = SomeUrl(req.selected_file, now)]
              ELSE req
    /\ pc' = "respond"
    /\ UNCHANGED <<env, pending, now, gpt_cache, recent_tracks, all_files, resp, prev, pp>>

\* streaming_url = gcs_manager.generate_signed_url(selected_file), cached when
\* it is a URL; the signer returns None when the bucket is missing or the
\* signing raises
Sign(signed) ==
    /\ pc = "sign"
    /\ obs' = [obs EXCEPT !.signer_calls = @ + 1, !.url_at = now]
    /\ IF signed
       THEN LET url == SomeUrl(req.selected_file, now)
            IN  /\ url_cache' = cache_signed_url(url_cache, req.selected_file, url, now)
                /\ req' = [req EXCEPT !.streaming_url = url]
       ELSE /\ url_cache' = url_cache
            /\ req' = req
    /\ pc' = "respond"
    /\ UNCHANGED <<env, pending, now, gpt_cache, recent_tracks, all_files, resp, prev, pp>>

\* MusicAnalysis(**analysis_dict): the fields pydantic requires
ValidAnalysis(d) == {"primary_mood", "intensity", "reasoning"} \subseteq DOMAIN d

\* (variant of Respond that takes the track back out of the recent tracks
\* when there is no URL for it)
RespondRollingBack ==
    /\ pc = "respond"
    /\ IF req.streaming_url.isNone
       THEN /\ Finish(HttpError(500, "Failed to generate streaming URL"))
            /\ recent_tracks' = SubSeq(recent_tracks, 1, Len(recent_tracks) - 1)
       ELSE /\ recent_tracks' = recent_tracks
            /\ IF ~ValidAnalysis(Analysis)
               THEN Finish(HttpError(500, "ValidationError"))
               ELSE Finish([status |-> 200, analysis |-> Analysis, mood |-> req.mood,
                            file_path |-> req.selected_file,
                            streaming_url |-> req.streaming_url])
    /\ UNCHANGED <<env, pending, now, gpt_cache, url_cache, all_files, pp>>

\* the 500 for a missing URL, then the response
Respond ==
    /\ pc = "respond"
    /\ IF req.streaming_url.isNone
       THEN Finish(HttpError(500, "Failed to generate streaming URL"))
       ELSE IF ~ValidAnalysis(Analysis)
       THEN Finish(HttpError(500, "ValidationError"))
       ELSE Finish([status |-> 200, analysis |-> Analysis, mood |-> req.mood,
                    file_path |-> req.selected_file,
                    streaming_url |-> req.streaming_url])
    /\ UNCHANGED <<env, pending, now, gpt_cache, url_cache, recent_tracks, all_files, pp>>

(***************************************************************************)
(* POST /api/cache/clear                                                   *)
(***************************************************************************)
\* (variant of ClearCache that runs while an analyze handler is between two
\* of its steps)
ClearCacheAnyTime ==
    /\ resp' = [status |-> 200,
                cleared |-> [gpt_cache |-> Len(gpt_cache),
                             url_cache |-> Cardinality(DOMAIN url_cache),
                             recent_tracks |-> Len(recent_tracks)]]
    /\ gpt_cache' = << >>
    /\ url_cache' = [f \in {} |-> f]
    /\ recent_tracks' = << >>
    /\ prev' = NoPrev
    /\ UNCHANGED <<env, pending, now, all_files, pc, req, obs, pp>>

\* (variant of ClearCache that reports the sizes after the reset)
ClearCacheCountsAfter ==
    /\ pc = "idle"
    /\ gpt_cache' = << >>
    /\ url_cache' = [f \in {} |-> f]
    /\ recent_tracks' = << >>
    /\ resp' = [status |-> 200,
                cleared |-> [gpt_cache |-> Len(gpt_cache'),
                             url_cache |-> Cardinality(DOMAIN url_cache'),
                             recent_tracks |-> Len(recent_tracks')]]
    /\ prev' = NoPrev
    /\ UNCHANGED <<env, pending, now, all_files, pc, req, obs, pp>>

ClearCache ==
    /\ pc = "idle"
    /\ resp' = [status |-> 200,
                cleared |-> [gpt_cache |-> Len(gpt_cache),
                             url_cache |-> Cardinality(DOMAIN url_cache),
                             recent_tracks |-> Len(recent_tracks)]]
    /\ gpt_cache' = << >>
    /\ url_cache' = [f \in {} |-> f]
    /\ recent_tracks' = << >>
    /\ prev' = NoPrev
    /\ UNCHANGED <<env, pending, now, all_files, pc, req, obs, pp>>

\* the clock advances
Tick ==
    /\ now < MaxTime
    /\ now' = now + 1
    /\ UNCHANGED <<env, pending, gpt_cache, url_cache, recent_tracks, all_files, pc, req, resp, obs, prev, pp>>

Next ==
    \/ \E prompt \in Prompts(env) : Arrive(prompt)
    \/ \E prompt \in Prompts(env) : AnalyzeStart(prompt)
    \/ GptLookup
    \/ \E reply \in Replies(env) : GptAttempt(reply)
    \/ PostProcess
    \/ Select
    \/ UrlLookup
    \/ \E signed \in SignerOutcomes(env) : Sign(signed)
    \/ Respond
    \/ ClearCache
    \/ Tick

Spec == Init /\ [][Next]_vars

\* a call of the classifier returns or raises: the retry loop is not left
\* waiting for ever
FairSpec == Spec /\ WF_vars(\E reply \in Replies(env) : GptAttempt(reply))

\* the next statements of the handler in flight, whatever the classifier and
\* the signer answer
HandlerRuns ==
    \/ GptLookup
    \/ \E reply \in Replies(env) : GptAttempt(reply)
    \/ PostProcess
    \/ Select
    \/ UrlLookup
    \/ \E signed \in SignerOutcomes(env) : Sign(signed)
    \/ Respond

\* the service in the two scenarios in which the classifier, the catalog and
\* the signer fail in every way they can
OutcomesInit == Init /\ env \in {"classify", "busy"}

SpecOutcomes == OutcomesInit /\ [][Next]_vars

(***************************************************************************)
(* post_process_mood on its own: every prompt of up to MaxTextLen tokens   *)
(* and every kind of analysis, corrected once and then once more.          *)
(***************************************************************************)
PPMoods == {"horror", "mysterious", "curious", "suspense", "peaceful"}

PPAnalyses == {FullDict(m) : m \in PPMoods} \cup {EmptyDict, [reasoning |-> "gpt"]}

NotRun == [raised |-> FALSE, analysis |-> EmptyDict]

PPInit ==
    /\ env = "moods"
    /\ pending = << >>
    /\ now = 0
    /\ gpt_cache = << >>
    /\ url_cache = [f \in {} |-> f]
    /\ recent_tracks = << >>
    /\ all_files = Catalog(env)
    /\ pc = "idle"
    /\ req = IdleReq
    /\ resp = NoResp
    /\ obs = IdleObs
    /\ prev = NoPrev
    /\ pp \in [stage : {"input"}, prompt : SeqsUpTo(Tokens, MaxTextLen),
               analysis : PPAnalyses, once : {NotRun}, twice : {NotRun}]

PPOnce ==
    /\ pp.stage = "input"
    /\ pp' = [pp EXCEPT !.stage = "once",
                        !.once = post_process_mood(pp.analysis, pp.prompt)]
    /\ UNCHANGED <<env, pending, now, gpt_cache, url_cache, recent_tracks, all_files, pc, req,
                   resp, obs, prev>>

PPTwice ==
    /\ pp.stage = "once"
    /\ ~pp.once.raised
    /\ pp' = [pp EXCEPT !.stage = "twice",
                        !.twice = post_process_mood(pp.once.analysis, pp.prompt)]
    /\ UNCHANGED <<env, pending, now, gpt_cache, url_cache, recent_tracks, all_files, pc, req,
                   resp, obs, prev>>

PPNext == PPOnce \/ PPTwice

SpecPP == PPInit /\ [][PPNext]_vars

(***************************************************************************)
(* select_music_from_mood on its own: the call of analyze's step 3 from    *)
(* every catalog, recent-track deque and mood of a bounded set.  A catalog *)
(* holds a file outside every folder, up to MaxPool files below Horror_mp3 *)
(* (the first one in a sub-folder) and any of five single files whose      *)
(* folders belong to the moods around "horror" and "peaceful":             *)
(*   Underscoring_mp3         suspense, tension, dark_comedy, isolation    *)
(*   Epic_Dramatic_mp3        suspense                                     *)
(*   Comedy_mp3               dark_comedy, comedy                          *)
(*   Uplifting_mp3            comedy (two steps away from horror)          *)
(*   Miscellaneous_Chill_mp3  peaceful, isolation                          *)
(* The deque holds files that a select can have returned.                  *)
(***************************************************************************)
MaxPool == 3

Stray == <<"intro.mp3">>

HorrorFiles ==
    << <<"Horror_mp3", "sub", "h1.mp3">>, <<"Horror_mp3", "h2.mp3">>,
       <<"Horror_mp3", "h3.mp3">>, <<"Horror_mp3", "h4.mp3">>,
       <<"Horror_mp3", "h5.mp3">>, <<"Horror_mp3", "h6.mp3">> >>

SingleFiles ==
    << <<"Underscoring_mp3", "u1.mp3">>, <<"Epic_Dramatic_mp3", "e1.mp3">>,
       <<"Comedy_mp3", "c1.mp3">>, <<"Uplifting_mp3", "p1.mp3">>,
       <<"Miscellaneous_Chill_mp3", "m1.mp3">> >>

SelCatalogs ==
    { <<Stray>> \o SubSeq(HorrorFiles, 1, k) \o SelectSeq(SingleFiles, LAMBDA f : f \in S) :
        k \in 0..MaxPool, S \in SUBSET Range(SingleFiles) }

\* "zzz" is not a key of MUSIC_LIBRARY
SelMoods == {"horror", "peaceful", "suspense", "zzz"}

SelInit ==
    /\ env = "url"
    /\ pending = << >>
    /\ now = 0
    /\ gpt_cache = << >>
    /\ url_cache = [f \in {} |-> f]
    /\ all_files \in SelCatalogs
    /\ recent_tracks \in SeqsUpTo(Range(all_files) \ {Stray}, RECENT_TRACKS_SIZE)
    /\ pc = "select"
    /\ req \in {[IdleReq EXCEPT !.prompt = <<"X">>, !.analysis = FullDict(m)] : m \in SelMoods}
    /\ resp = NoResp
    /\ obs = IdleObs
    /\ prev = NoPrev
    /\ pp = IdlePP

SelNext == Select

SpecSel == SelInit /\ [][SelNext]_vars

(***************************************************************************)
(* The Flask service of music_service_gcs.py, the app run_production.py    *)
(* serves: POST /api/analyze without caches, retries, similar moods or     *)
(* recent tracks.  Its MUSIC_LIBRARY and its post_process_mood are copies  *)
(* of those of main.py.  It runs from every catalog of SelCatalogs with    *)
(* the prompts and the classifier of scenario "classify", the empty prompt *)
(* and a signer that may fail.                                             *)
(***************************************************************************)
FlaskPrompts == Prompts("classify") \cup {<< >>}

FlaskInit ==
    /\ env = "classify"
    /\ pending = << >>
    /\ now = 0
    /\ gpt_cache = << >>
    /\ url_cache = [f \in {} |-> f]
    /\ recent_tracks = << >>
    /\ all_files \in SelCatalogs
    /\ pc = "idle"
    /\ req = IdleReq
    /\ resp = NoResp
    /\ obs = IdleObs
    /\ prev = NoPrev
    /\ pp = IdlePP

\* jsonify({'error': ...}), status
FlaskError(status, error) == [status |-> status, error |-> error]

\* return jsonify(...), status
FlaskReturn(response) ==
    /\ pc' = "idle"
    /\ resp' = response
    /\ req' = IdleReq

\* data = request.get_json(); the 400 for a missing prompt
FlaskStart(prompt) ==
    /\ pc = "idle"
    /\ IF prompt = << >>
       THEN FlaskReturn(FlaskError(400, "Prompt is required"))
       ELSE /\ pc' = "flask_gpt"
            /\ req' = [IdleReq EXCEPT !.prompt = prompt]
            /\ resp' = NoResp
    /\ UNCHANGED <<env, pending, now, gpt_cache, url_cache, recent_tracks, all_files,
                   obs, prev, pp>>

\* analyze_scene_with_gpt: one call, the default literal when it raises
FlaskClassify(reply) ==
    /\ pc = "flask_gpt"
    /\ req' = [req EXCEPT !.analysis = IF reply.kind = "ok" THEN reply.val
                                       ELSE DefaultAnalysis]
    /\ pc' = "flask_post"
    /\ UNCHANGED <<env, pending, now, gpt_cache, url_cache, recent_tracks, all_files,
                   resp, obs, prev, pp>>

\* analysis = post_process_mood(analysis, prompt)
FlaskPostProcess ==
    /\ pc = "flask_post"
    /\ LET r == post_process_mood(req.analysis, req.prompt)
       IN  IF r.raised
           THEN FlaskReturn(FlaskError(500, "KeyError"))
           ELSE /\ pc' = "flask_select"
                /\ req' = [req EXCEPT !.analysis = r.analysis]
                /\ resp' = resp
    /\ UNCHANGED <<env, pending, now, gpt_cache, url_cache, recent_tracks, all_files,
                   obs, prev, pp>>

\* mood = analysis['primary_mood']; select_music_from_mood(mood); the 404
FlaskSelect ==
    /\ pc = "flask_select"
    /\ IF ~HasKey(req.analysis, "primary_mood")
       THEN FlaskReturn(FlaskError(500, "KeyError"))
       ELSE LET mood == req.analysis["primary_mood"]
                own == IF mood \in DOMAIN MUSIC_LIBRARY THEN mood ELSE "peaceful"
                files == get_files_from_folders(all_files, MUSIC_LIBRARY[own])
            IN  IF files = << >>
                THEN FlaskReturn(FlaskError(404, "No music file found for the selected mood"))
                ELSE \E n \in 1..Len(files) :
                        /\ req' = [req EXCEPT !.mood = mood, !.selected_file = files[n]]
                        /\ pc' = "flask_sign"
                        /\ resp' = resp
    /\ UNCHANGED <<env, pending, now, gpt_cache, url_cache, recent_tracks, all_files,
                   obs, prev, pp>>

\* streaming_url = gcs_manager.generate_signed_url(selected_file), a URL or
\* None, and the response built from it
FlaskSign(signed) ==
    /\ pc = "flask_sign"
    /\ LET streaming_url == IF signed THEN SomeUrl(req.selected_file, now)
                            ELSE IdleReq.streaming_url
       IN  FlaskReturn([status |-> 200, analysis |-> req.analysis, mood |-> req.mood,
                        file_path |-> req.selected_file,
                        streaming_url |-> streaming_url])
    /\ UNCHANGED <<env, pending, now, gpt_cache, url_cache, recent_tracks, all_files,
                   obs, prev, pp>>

FlaskNext ==
    \/ \E prompt \in FlaskPrompts : FlaskStart(prompt)
    \/ \E reply \in Replies(env) : FlaskClassify(reply)
    \/ FlaskPostProcess
    \/ FlaskSelect
    \/ \E signed \in BOOLEAN : FlaskSign(signed)

SpecFlask == FlaskInit /\ [][FlaskNext]_vars

(***************************************************************************)
(* Properties.                                                             *)
(***************************************************************************)
CacheKeys(cache) == {cache[i].key : i \in 1..Len(cache)}

CacheEntries(cache) == {cache[i] : i \in 1..Len(cache)}

\* the step of GptAttempt in which cache_gpt_response runs
PutStep == pc = "gpt_call" /\ pc' = "post_process" /\ obs'.outcome = "stored"

\* C1: after any sequence of analyze requests and cache clears, gpt_cache
\* never holds more than GPT_CACHE_MAX_SIZE entries.
C1_CacheSizeBounded == Len(gpt_cache) <= GPT_CACHE_MAX_SIZE

\* a store into a full cache has just evicted, and the cache is full again
C1_Witness ==
    /\ pc = "post_process"
    /\ Len(obs.evicted) = 1
    /\ Len(gpt_cache) = GPT_CACHE_MAX_SIZE

C3_ExpiredNeverReturned ==
    [][ /\ (pc = "gpt_lookup" /\ pc' # "gpt_lookup")
           => \A e \in CacheEntries(gpt_cache) :
                 (e.key = get_prompt_hash(req.prompt)
                  /\ now - e.timestamp > GPT_CACHE_EXPIRY)
                 => (/\ pc' = "gpt_call"
                     /\ obs'.outcome # "hit"
                     /\ e.key \notin CacheKeys(gpt_cache'))
        /\ (/\ pc = "url_lookup"
            /\ pc' # "url_lookup"
            /\ req.selected_file \in DOMAIN url_cache
            /\ now - url_cache[req.selected_file].timestamp > URL_CACHE_EXPIRY)
           => (/\ pc' = "sign"
               /\ req'.streaming_url.isNone
               /\ req.selected_file \notin DOMAIN url_cache') ]_vars

\* one request has read an expired entry from each of the two caches
C3_Witness ==
    /\ pc = "sign"
    /\ obs.gpt_read = "expired"
    /\ obs.url_read = "expired"

\* the request in flight follows, with nothing in between, a request for
\* the same text
SameTextAgain == prev.outcome # "none" /\ prev.prompt = req.prompt

\* C4 (as stated): two classify calls in succession with the same text within
\* the expiry window issue at most one external call, and the second one is a
\* cache hit that makes none.
C4_AtMostOneCall ==
    (/\ pc = "post_process"
     /\ SameTextAgain
     /\ obs.lookup_at - prev.returned_at <= GPT_CACHE_EXPIRY)
    => (obs.outcome = "hit" /\ prev.gpt_calls + obs.gpt_calls <= 1)

\* C4 (amended): when the first call returned a non-empty dict that is in the
\* cache (stored by it, or hit), a second call with the same text no later
\* than the expiry window after that entry was stored is a cache hit and makes
\* no external call; after a first call that got the default (nothing stored)
\* or stored the empty dict (falsy at the `if cached_result:` test) the second
\* call calls the classifier again.
C4_SecondCallHitsCache ==
    /\ (/\ pc = "post_process"
        /\ SameTextAgain
        /\ prev.outcome \in {"stored", "hit"}
        /\ prev.truthy
        /\ obs.lookup_at - prev.entry_ts <= GPT_CACHE_EXPIRY)
       => (obs.outcome = "hit" /\ obs.gpt_calls = 0)
    /\ (/\ pc = "post_process"
        /\ SameTextAgain
        /\ \/ prev.outcome = "default"
           \/ prev.outcome = "stored" /\ ~prev.truthy)
       => (obs.outcome # "hit" /\ obs.gpt_calls >= 1)

\* the second call found the entry the first one stored, on the last unit of
\* its window
C4_Witness ==
    /\ pc = "post_process"
    /\ SameTextAgain
    /\ prev.outcome = "stored"
    /\ prev.gpt_calls >= 1
    /\ obs.outcome = "hit"
    /\ obs.lookup_at - prev.entry_ts = GPT_CACHE_EXPIRY

\* C5: classify always returns: the retry loop ends after at most 3 external
\* calls whatever the classifier does, and when all 3 attempts failed the
\* result is the default with primary_mood "peaceful", secondary_mood None,
\* intensity 0.5 and no emotional tags.
C5_ClassifyAlwaysReturns ==
    /\ [](obs.gpt_calls <= 3)
    /\ []((pc = "post_process" /\ obs.failed = 3)
          => /\ Analysis["primary_mood"] = "peaceful"
             /\ Analysis["secondary_mood"] = "None"
             /\ Analysis["intensity"] = "0.5"
             /\ Analysis["emotional_tags"] = << >>)
    /\ (pc = "gpt_call" ~> pc = "post_process")

\* classify has returned after three failed attempts
C5_Witness ==
    /\ pc = "post_process"
    /\ obs.failed = 3
    /\ obs.gpt_calls = 3
    /\ obs.outcome = "default"

\* C6: a classify call whose attempts all failed leaves gpt_cache as it was
\* after its lookup, and the next classify of the same text calls the
\* external classifier again.
C6_DefaultNotCached ==
    /\ (pc = "post_process" /\ obs.outcome = "default")
       => gpt_cache = obs.after_lookup
    /\ (pc = "post_process" /\ SameTextAgain /\ prev.outcome = "default")
       => (obs.outcome # "hit" /\ obs.gpt_calls >= 1)

\* two requests for one text in a row got the default, while the cache held
\* the result of another text
C6_Witness ==
    /\ pc = "post_process"
    /\ SameTextAgain
    /\ prev.outcome = "default"
    /\ obs.outcome = "default"
    /\ Len(gpt_cache) >= 1

\* C7 (as stated): post_process_mood is idempotent on primary_mood:
\* correcting a corrected result with the same text changes nothing.
C7_Idempotent ==
    (pp.stage = "twice" /\ ~pp.twice.raised /\ HasKey(pp.once.analysis, "primary_mood"))
    => pp.twice.analysis["primary_mood"] = pp.once.analysis["primary_mood"]

\* C8 (as stated): a request served from gpt_cache reports the same corrected
\* primary_mood as the request for the same text before it.
C8_SameMoodOnHit ==
    (/\ pc = "respond"
     /\ ~req.streaming_url.isNone
     /\ ValidAnalysis(Analysis)
     /\ obs.outcome = "hit"
     /\ SameTextAgain
     /\ prev.mood # "")
    => Analysis["primary_mood"] = prev.mood

HorrorTriggers == {<<"duryeoum">>, <<"gongpo">>, <<"museoun">>, <<"seomtteuk">>}

CuriosityTriggers == {<<"hogisim">>, <<"gunggeum">>, <<"sinbi">>, <<"gunggeum", "han">>}

HasTrigger(prompt, triggers) == \E k \in triggers : Contains(prompt, k)

\* C9: for a text with a horror trigger keyword and a result whose
\* primary_mood is not "horror", one pass of post_process_mood returns
\* primary_mood "horror", whatever else the text contains.
C9_HorrorOverride ==
    (/\ pp.stage # "input"
     /\ HasKey(pp.analysis, "primary_mood")
     /\ pp.analysis["primary_mood"] # "horror"
     /\ HasTrigger(pp.prompt, HorrorTriggers))
    => (~pp.once.raised /\ pp.once.analysis["primary_mood"] = "horror")

\* a "curious" result for a text with a curiosity and a horror keyword became
\* "horror"
C9_Witness ==
    /\ pp.stage = "once"
    /\ pp.analysis = FullDict("curious")
    /\ HasTrigger(pp.prompt, HorrorTriggers)
    /\ HasTrigger(pp.prompt, CuriosityTriggers)
    /\ pp.once.analysis["primary_mood"] = "horror"

\* C10: for a text with a mysterious/curious trigger keyword and a result
\* whose primary_mood is "horror", one pass of post_process_mood returns
\* primary_mood "mysterious" or "curious", never "horror".
C10_CuriosityOverride ==
    (/\ pp.stage # "input"
     /\ HasKey(pp.analysis, "primary_mood")
     /\ pp.analysis["primary_mood"] = "horror"
     /\ HasTrigger(pp.prompt, CuriosityTriggers))
    => (~pp.once.raised /\ pp.once.analysis["primary_mood"] \in {"mysterious", "curious"})

\* a "horror" result for a text with a curiosity and a horror keyword became
\* "mysterious"
C10_Witness ==
    /\ pp.stage = "once"
    /\ pp.analysis = FullDict("horror")
    /\ HasTrigger(pp.prompt, HorrorTriggers)
    /\ HasTrigger(pp.prompt, CuriosityTriggers)
    /\ pp.once.analysis["primary_mood"] \in {"mysterious", "curious"}


(***************************************************************************)
(* The selector, stated from the tables and the catalog alone.             *)
(***************************************************************************)
\* the catalog entries whose path starts with "<folder>/" for a folder of mood
FolderFiles(mood) ==
    {f \in Range(all_files) : \E folder \in Range(MUSIC_LIBRARY[mood]) : InFolder(f, folder)}

\* the mood select is called with, and the mood it starts from
Requested == Analysis["primary_mood"]

OwnMood == IF Requested \in DOMAIN MUSIC_LIBRARY THEN Requested ELSE "peaceful"

\* the positions of the similarity list whose moods have files
SimilarWithFiles(mood) ==
    {i \in 1..Len(MOOD_SIMILARITY[mood]) : FolderFiles(MOOD_SIMILARITY[mood][i]) # {}}

FirstWithFiles(mood) ==
    CHOOSE i \in SimilarWithFiles(mood) : \A j \in SimilarWithFiles(mood) : i <= j

\* the pool of the resolved mood: the mood's own files, else those of the
\* first similar mood that has any, else nothing
PoolOf(mood) ==
    IF FolderFiles(mood) # {} THEN FolderFiles(mood)
    ELSE IF SimilarWithFiles(mood) # {}
    THEN FolderFiles(MOOD_SIMILARITY[mood][FirstWithFiles(mood)])
    ELSE {}

\* the step in which select_music_from_mood returns a track
SelectReturns == pc = "select" /\ pc' = "url_lookup"

\* the step in which select_music_from_mood returns or raises
SelectEnds == pc = "select" /\ pc' # "select"

\* C11: a track returned by select_music_from_mood is an entry of the catalog
\* whose path starts with "<folder>/" for a folder of the resolved mood: the
\* requested mood ("peaceful" if unknown) when it has files, otherwise the
\* first similar mood that has.
C11_ReturnedTrackInResolvedFolders ==
    [][ SelectReturns
        => /\ req'.selected_file \in Range(all_files)
           /\ IF FolderFiles(OwnMood) # {}
              THEN req'.selected_file \in FolderFiles(OwnMood)
              ELSE /\ SimilarWithFiles(OwnMood) # {}
                   /\ req'.selected_file \in
                        FolderFiles(MOOD_SIMILARITY[OwnMood][FirstWithFiles(OwnMood)]) ]_vars

\* "horror" got the file below Horror_mp3/sub/ from a catalog that also holds
\* files of other folders and a file outside every folder
C11_Witness ==
    /\ pc = "url_lookup"
    /\ req.mood = "horror"
    /\ req.selected_file = HorrorFiles[1]
    /\ Stray \in Range(all_files)
    /\ SingleFiles[1] \in Range(all_files)

C13_FallbackInListOrder ==
    [][ (SelectEnds /\ FolderFiles(OwnMood) = {} /\ SimilarWithFiles(OwnMood) # {})
        => /\ pc' = "url_lookup"
           /\ req'.selected_file \in
                FolderFiles(MOOD_SIMILARITY[OwnMood][FirstWithFiles(OwnMood)])
           /\ (OwnMood = "horror" /\ FolderFiles("suspense") # {})
              => req'.selected_file \in FolderFiles("suspense") ]_vars

\* "horror" without Horror files got the Epic_Dramatic file of "suspense"
\* although "dark_comedy", later in the list, had a Comedy file
C13_Witness ==
    /\ pc = "url_lookup"
    /\ req.mood = "horror"
    /\ FolderFiles("horror") = {}
    /\ FolderFiles("dark_comedy") # {}
    /\ req.selected_file = SingleFiles[2]

\* C14: select ends in the 404 exactly when the own folders of the mood and
\* the folders of every mood of its similarity list have no track; the 404
\* names the mood; moods similar to similar moods are not tried.
C14_NotFoundIffChainEmpty ==
    [][ SelectEnds
        => /\ (resp'.status = 404)
              <=> (/\ FolderFiles(OwnMood) = {}
                   /\ \A i \in 1..Len(MOOD_SIMILARITY[OwnMood]) :
                         FolderFiles(MOOD_SIMILARITY[OwnMood][i]) = {})
           /\ (resp'.status = 404) => (resp'.detail = OwnMood /\ pc' = "idle")
           /\ (resp'.status # 404) => pc' = "url_lookup" ]_vars

\* the 404 for "horror" from a catalog with an Uplifting file, which "comedy"
\* (similar to "dark_comedy", which is similar to "horror") would find
C14_Witness ==
    /\ pc = "idle"
    /\ resp.status = 404
    /\ resp.detail = "horror"
    /\ "comedy" \in Range(MOOD_SIMILARITY["dark_comedy"])
    /\ "dark_comedy" \in Range(MOOD_SIMILARITY["horror"])
    /\ FolderFiles("comedy") # {}

\* what a successful select of `mood` may return from the current state
MayReturn(mood) ==
    IF Cardinality(PoolOf(mood)) > RECENT_TRACKS_SIZE
       /\ PoolOf(mood) \ Range(recent_tracks) # {}
    THEN PoolOf(mood) \ Range(recent_tracks)
    ELSE PoolOf(mood)

\* C15: for a mood that is not a key of MUSIC_LIBRARY, select does what it
\* does for "peaceful" from the same state: it fails with the 404 of
\* "peaceful" when that has no pool, and otherwise returns one of the tracks
\* it may return for "peaceful" (each of them is possible) and appends it to
\* recent_tracks.
C15_UnknownMoodIsPeaceful ==
    /\ [][ (SelectEnds /\ Requested \notin DOMAIN MUSIC_LIBRARY)
           => IF PoolOf("peaceful") = {}
              THEN /\ resp'.status = 404
                   /\ resp'.detail = "peaceful"
                   /\ recent_tracks' = recent_tracks
              ELSE /\ pc' = "url_lookup"
                   /\ req'.selected_file \in MayReturn("peaceful")
                   /\ recent_tracks' = DequeAppend(recent_tracks, req'.selected_file) ]_vars
    /\ []( (pc = "select" /\ Requested \notin DOMAIN MUSIC_LIBRARY)
           => \A f \in MayReturn("peaceful") :
                 f \in Range(Candidates(ResolvePool(all_files, Requested).all_files,
                                        recent_tracks)) )

\* the unknown mood "zzz" got the Underscoring file that "peaceful" gets from
\* "isolation", the second mood of its similarity list
C15_Witness ==
    /\ pc = "url_lookup"
    /\ req.mood = "zzz"
    /\ FolderFiles("peaceful") = {}
    /\ req.selected_file = SingleFiles[1]
    /\ req.selected_file \in FolderFiles("isolation")

\* C16: recent_tracks never holds more than RECENT_TRACKS_SIZE entries; a
\* select that returns appends the returned track at the newest end, and a
\* full deque drops its oldest entry and keeps the others in order; nothing
\* else changes the deque except the clearing of the caches.
C16_RecentTracksBounded ==
    /\ [](Len(recent_tracks) <= RECENT_TRACKS_SIZE)
    /\ [][ SelectReturns
           => recent_tracks' =
                 IF Len(recent_tracks) = RECENT_TRACKS_SIZE
                 THEN Append(Tail(recent_tracks), req'.selected_file)
                 ELSE Append(recent_tracks, req'.selected_file) ]_vars
    /\ [][ (recent_tracks' # recent_tracks)
           => (SelectReturns \/ (pc = "idle" /\ recent_tracks' = << >>)) ]_vars

\* a select on a full deque dropped the oldest entry and kept the other
C16_Witness ==
    /\ pc = "url_lookup"
    /\ Len(obs.recent_before) = RECENT_TRACKS_SIZE
    /\ Len(recent_tracks) = RECENT_TRACKS_SIZE
    /\ obs.recent_before[1] \notin Range(recent_tracks)
    /\ recent_tracks = Append(Tail(obs.recent_before), req.selected_file)


(***************************************************************************)
(* The signed-URL cache.                                                   *)
(***************************************************************************)
\* the step in which get_cached_signed_url returns
UrlLookupEnds == pc = "url_lookup" /\ pc' # "url_lookup"

\* the step in which generate_signed_url returns
SignEnds == pc = "sign" /\ pc' # "sign"

Cached == req.selected_file \in DOMAIN url_cache

\* C17: a fetch of a track no more than URL_CACHE_EXPIRY after its URL was
\* stored returns the stored URL, which is the one the storing fetch
\* returned, makes no signer call and leaves the cache as it is; a fetch
\* later than that removes the entry and makes exactly one signer call, and
\* the URL that call returns is stored with the current timestamp.
C17_UrlReusedWithinWindow ==
    /\ [][ (UrlLookupEnds /\ Cached)
           => IF now - url_cache[req.selected_file].timestamp <= URL_CACHE_EXPIRY
              THEN /\ pc' = "respond"
                   /\ req'.streaming_url = url_cache[req.selected_file].url
                   /\ url_cache' = url_cache
              ELSE /\ pc' = "sign"
                   /\ req.selected_file \notin DOMAIN url_cache' ]_vars
    /\ [][ SignEnds
           => /\ obs.signer_calls = 0
              /\ obs'.signer_calls = 1
              /\ pc' = "respond"
              /\ ~req'.streaming_url.isNone
                 => /\ req'.streaming_url.minted = now
                    /\ url_cache'[req.selected_file] =
                          [url |-> req'.streaming_url, timestamp |-> now] ]_vars
    /\ []( pc = "respond"
           => obs.signer_calls = IF obs.url_read = "hit" THEN 0 ELSE 1 )

\* a URL was returned from the cache on the last unit of its window, and the
\* signer was not called
C17_Witness ==
    /\ pc = "respond"
    /\ obs.url_read = "hit"
    /\ obs.signer_calls = 0
    /\ obs.url_at - req.streaming_url.minted = URL_CACHE_EXPIRY
    /\ url_cache[req.selected_file].url = req.streaming_url

\* C18: the URL of a successful analyze request was minted no more than
\* URL_CACHE_EXPIRY (50 minutes) before the handler obtained it, from the
\* cache or the signer, after which it only builds the response; signed for
\* 60 minutes, it has at least 10 left; a hit leaves the stored timestamp.
C18_UrlFreshWhenReturned ==
    /\ [][ (pc = "respond" /\ pc' = "idle" /\ resp'.status = 200)
           => /\ resp'.streaming_url = req.streaming_url
              /\ ~resp'.streaming_url.isNone
              /\ resp'.streaming_url.blob = req.selected_file
              /\ obs.url_at - resp'.streaming_url.minted >= 0
              /\ obs.url_at - resp'.streaming_url.minted <= URL_CACHE_EXPIRY ]_vars
    /\ [][ (UrlLookupEnds /\ pc' = "respond")
           => /\ Cached
              /\ url_cache'[req.selected_file].timestamp
                    = url_cache[req.selected_file].timestamp
              /\ url_cache[req.selected_file].timestamp = req'.streaming_url.minted ]_vars
    /\ [](expiration_minutes - URL_CACHE_EXPIRY_MINUTES >= 10)

\* a request succeeded with a URL from the cache that was as old as the
\* window allows
C18_Witness ==
    /\ pc = "idle"
    /\ resp.status = 200
    /\ "streaming_url" \in DOMAIN resp
    /\ prev.url_age = URL_CACHE_EXPIRY
    /\ \E f \in DOMAIN url_cache : url_cache[f].url = resp.streaming_url

\* C19: when generate_signed_url returns no URL, the request ends with a 500,
\* its response carries no URL, and the URL cache is what it was after the
\* lookup: it has no entry for the track.
C19_SignerFailureNotCached ==
    /\ [][ (SignEnds /\ req'.streaming_url.isNone)
           => /\ url_cache' = url_cache
              /\ req.selected_file \notin DOMAIN url_cache' ]_vars
    /\ [][ (pc = "respond" /\ pc' # "respond" /\ req.streaming_url.isNone)
           => /\ resp'.status = 500
              /\ resp'.detail = "Failed to generate streaming URL"
              /\ "streaming_url" \notin DOMAIN resp'
              /\ url_cache' = url_cache
              /\ req.selected_file \notin DOMAIN url_cache' ]_vars

\* the signer failed after the lookup had dropped the expired URL of the
\* track, while the URL of another track stayed in the cache
C19_Witness ==
    /\ pc = "respond"
    /\ req.streaming_url.isNone
    /\ obs.url_read = "expired"
    /\ obs.signer_calls = 1
    /\ req.selected_file \notin DOMAIN url_cache
    /\ DOMAIN url_cache # {}


(***************************************************************************)
(* The static tables.                                                      *)
(***************************************************************************)
\* C20: every mood listed in an entry of MOOD_SIMILARITY is a key of
\* MUSIC_LIBRARY, every key of MUSIC_LIBRARY has an entry, every entry lists
\* at most 3 moods, and so the fallback loop of select_music_from_mood never
\* raises KeyError for a similar mood.
C20_SimilarityClosed ==
    /\ \A mood \in DOMAIN MOOD_SIMILARITY :
          /\ Len(MOOD_SIMILARITY[mood]) <= 3
          /\ \A i \in 1..Len(MOOD_SIMILARITY[mood]) :
                MOOD_SIMILARITY[mood][i] \in DOMAIN MUSIC_LIBRARY
    /\ DOMAIN MUSIC_LIBRARY \subseteq DOMAIN MOOD_SIMILARITY
    /\ (pc = "idle" /\ resp.status = 500) => resp.detail # "KeyError"

\* the fallback loop looked up all three moods similar to "horror" and took
\* the Comedy file of the last one, "dark_comedy"
C20_Witness ==
    /\ pc = "url_lookup"
    /\ req.mood = "horror"
    /\ FolderFiles("horror") = {}
    /\ FolderFiles("suspense") = {}
    /\ FolderFiles("tension") = {}
    /\ req.selected_file = SingleFiles[3]


(***************************************************************************)
(* Requests that arrive while a handler runs.                              *)
(***************************************************************************)
Shared == <<gpt_cache, url_cache, recent_tracks>>

\* a step of the handler in flight: one of its function calls
HandlerStep ==
    /\ pc # "idle"
    /\ pc' # pc \/ req' # req
    /\ pending' = pending
    /\ now' = now

\* the step in which POST /api/cache/clear answers
ClearStep == "cleared" \in DOMAIN resp' /\ resp' # resp

WellFormed ==
    /\ \A i \in 1..Len(gpt_cache) :
          /\ DOMAIN gpt_cache[i] = {"key", "result", "timestamp"}
          /\ \A j \in 1..Len(gpt_cache) : gpt_cache[i].key = gpt_cache[j].key => i = j
    /\ \A f \in DOMAIN url_cache : DOMAIN url_cache[f] = {"url", "timestamp"}

\* C21: whatever requests arrive while a handler runs, no handler starts
\* before the one in flight has ended, the caches and the recent tracks
\* change between its start and its end only by its own steps (each
\* check-then-act of get_cached_gpt_response, cache_gpt_response and
\* select_music_from_mood is inside one of them), and no state has a cache
\* above its cap, a key twice or a record without one of its fields.
C21_CheckThenActUninterrupted ==
    /\ [][ (pc' = "gpt_lookup" /\ pc # "gpt_lookup") => pc = "idle" ]_vars
    /\ [][ (pc # "idle" /\ Shared' # Shared) => HandlerStep ]_vars
    /\ [][ pending' # pending => Shared' = Shared \/ pc = "idle" ]_vars
    /\ [](Len(gpt_cache) <= GPT_CACHE_MAX_SIZE /\ WellFormed)

\* a request waits while the handler in flight has found the entry of its
\* text expired, removed it, and stored the new result
C21_Witness ==
    /\ pending # << >>
    /\ pc = "post_process"
    /\ obs.gpt_read = "expired"
    /\ obs.outcome = "stored"
    /\ Len(gpt_cache) = 1

\* C22: POST /api/cache/clear runs only between two handlers, empties the
\* three structures in a single step, and what a request that succeeded
\* wrote (its classifier result, its URL, its track) is in the structures
\* when it ends: no clear came in between.
C22_ClearIsAtomic ==
    /\ [][ ClearStep => /\ pc = "idle" /\ pc' = "idle"
                        /\ gpt_cache' = << >>
                        /\ DOMAIN url_cache' = {}
                        /\ recent_tracks' = << >> ]_vars
    /\ [][ (pc = "respond" /\ pc' = "idle" /\ resp'.status = 200)
           => /\ get_prompt_hash(req.prompt) \in CacheKeys(gpt_cache') \/ obs.outcome = "default"
              /\ req.selected_file \in DOMAIN url_cache'
              /\ req.selected_file \in Range(recent_tracks') ]_vars

\* the caches were cleared while a request was waiting for its handler
C22_Witness ==
    /\ pc = "idle"
    /\ pending # << >>
    /\ "cleared" \in DOMAIN resp
    /\ resp.cleared.gpt_cache = 1
    /\ resp.cleared.url_cache = 1

\* the handler in flight is in a backoff sleep or about to call again
Sleeping == pc = "gpt_call" /\ Len(obs.sleeps) > 0

\* C23: while a handler is in a backoff sleep, the handler of a waiting
\* request can start, and POST /api/cache/clear can run.
C23_OthersRunDuringSleep ==
    /\ (Sleeping /\ pending # << >>) => ENABLED (\E prompt \in Prompts(env) : AnalyzeStart(prompt))
    /\ Sleeping => ENABLED ClearCache

\* C24: POST /api/cache/clear reports the sizes the three structures had
\* before it, and leaves all three empty; they stay empty as long as its
\* response is the last one, and the recent tracks keep their capacity.
C24_ClearEmptiesAndCounts ==
    /\ [][ ClearStep => /\ resp'.cleared.gpt_cache = Len(gpt_cache)
                        /\ resp'.cleared.url_cache = Cardinality(DOMAIN url_cache)
                        /\ resp'.cleared.recent_tracks = Len(recent_tracks)
                        /\ gpt_cache' = << >>
                        /\ DOMAIN url_cache' = {}
                        /\ recent_tracks' = << >> ]_vars
    /\ []("cleared" \in DOMAIN resp
            => gpt_cache = << >> /\ DOMAIN url_cache = {} /\ recent_tracks = << >>)
    /\ [](Len(recent_tracks) <= RECENT_TRACKS_SIZE)

\* a clear that found one classifier result, two URLs and a full deque
C24_Witness ==
    /\ "cleared" \in DOMAIN resp
    /\ resp.cleared.gpt_cache = 1
    /\ resp.cleared.url_cache = 2
    /\ resp.cleared.recent_tracks = RECENT_TRACKS_SIZE
    /\ gpt_cache = << >>
    /\ DOMAIN url_cache = {}
    /\ recent_tracks = << >>

(***************************************************************************)
(* The retry loop and the handler's outcomes.                              *)
(***************************************************************************)
Min(a, b) == IF a < b THEN a ELSE b

StepsLeft ==
    CASE pc = "idle"         -> 0
      [] pc = "respond"      -> 1
      [] pc = "sign"         -> 2
      [] pc = "url_lookup"   -> 3
      [] pc = "select"       -> 4
      [] pc = "post_process" -> 5
      [] pc = "gpt_call"     -> 5 + (retry_count - req.attempt)
      [] pc = "gpt_lookup"   -> 6 + retry_count

\* C26: a handler of POST /api/analyze that has started ends: it always has
\* a next step, whatever the classifier, the catalog and the signer return,
\* and each step brings it closer to its end; it ends with status 200, 404
\* or 500, and with 500 when the classifier reply has no primary_mood.
C26_ThreeOutcomes ==
    /\ [][ (pc # "idle" /\ pc' = "idle") => resp'.status \in {200, 404, 500} ]_vars
    /\ [][ (pc = "select" /\ ~HasKey(Analysis, "primary_mood") /\ pc' # pc)
           => (pc' = "idle" /\ resp'.status = 500) ]_vars
    /\ [](resp.status \in {0, 200, 404, 500})
    /\ [](pc # "idle" => ENABLED HandlerRuns)
    /\ [][ (pc # "idle" /\ (pc' # pc \/ req' # req))
           => (StepsLeft' < StepsLeft /\ StepsLeft' >= 0) ]_vars

\* a request whose classifier reply had no primary_mood ended with a 500
C26_Witness ==
    /\ pc = "idle"
    /\ resp.status = 500
    /\ resp.detail = "KeyError"
    /\ prev.outcome = "stored"
    /\ prev.gpt_calls >= 1

\* C27: a classify that is not a hit makes between 1 and retry_count calls;
\* each call either fails (by raising or by a reply that does not parse,
\* alike) or is the one success, after which no call follows; the success
\* stores the parsed reply under the key of the text, stamped with the time
\* of the store, and returns that object.
C27_MissCallsAndStores ==
    /\ [](obs.outcome \in {"stored", "default"}
            => (obs.gpt_calls >= 1 /\ obs.gpt_calls <= retry_count))
    /\ [](obs.gpt_calls = obs.failed + (IF obs.outcome = "stored" THEN 1 ELSE 0))
    /\ [](obs.outcome = "default" => obs.failed = retry_count)
    /\ [](req.last_error \in {"None", ApiError.kind, JsonError.kind})
    /\ []((req.last_error = "None") <=> (obs.failed = 0))
    /\ [][ (obs.outcome # "none" /\ obs'.gpt_calls # 0)
           => obs'.gpt_calls = obs.gpt_calls ]_vars
    /\ [][ PutStep
           => LET i == KeyIndex(gpt_cache', get_prompt_hash(req.prompt))
              IN  /\ i # 0
                  /\ gpt_cache'[i].result \in {r.val : r \in {x \in Replies(env) : x.kind = "ok"}}
                  /\ gpt_cache'[i].timestamp = now
                  /\ req'.aliased
                  /\ obs'.gpt_calls = obs.gpt_calls + 1 ]_vars

\* the third call succeeded after a call that raised or a reply that did
\* not parse, and its result is in the cache
C27_Witness ==
    /\ pc = "post_process"
    /\ obs.outcome = "stored"
    /\ obs.gpt_calls = retry_count
    /\ obs.failed = 2
    /\ req.last_error = JsonError.kind
    /\ KeyIndex(gpt_cache, get_prompt_hash(req.prompt)) # 0

\* C28 (as stated): post-processing leaves the Classifier Cache as it is: the
\* stored result stays the classifier's reply.
C28_CacheHoldsRawOutput ==
    [][ pc = "post_process" => gpt_cache' = gpt_cache ]_vars

SuspenseTriggers == {<<"ginjang">>, <<"ginjang", "gam">>}

\* C29: a pass of post_process_mood that does not raise returns a dict with
\* the same keys and, but for primary_mood, the same values; primary_mood
\* changes only by one of the two overrides (to "horror" from another mood
\* with a horror keyword in the text, from "horror" with a curiosity keyword
\* in the text), so it is unchanged without a horror keyword when it is not
\* "horror", with a horror keyword but no curiosity keyword when it is
\* "horror", and when the text has only suspense keywords.
C29_OnlyOverridesChange ==
    (pp.stage # "input" /\ ~pp.once.raised)
    => LET a == pp.analysis
           b == pp.once.analysis
           horror == HasTrigger(pp.prompt, HorrorTriggers)
           curiosity == HasTrigger(pp.prompt, CuriosityTriggers)
           suspense == HasTrigger(pp.prompt, SuspenseTriggers)
       IN  /\ DOMAIN b = DOMAIN a
           /\ \A k \in DOMAIN a \ {"primary_mood"} : b[k] = a[k]
           /\ HasKey(a, "primary_mood")
              => LET same == b["primary_mood"] = a["primary_mood"]
                 IN  /\ (~horror /\ a["primary_mood"] # "horror") => same
                     /\ (horror /\ a["primary_mood"] = "horror" /\ ~curiosity) => same
                     /\ (suspense /\ ~horror /\ ~curiosity) => same
                     /\ ~same => \/ /\ a["primary_mood"] # "horror"
                                    /\ horror
                                    /\ b["primary_mood"] = "horror"
                                 \/ /\ a["primary_mood"] = "horror"
                                    /\ curiosity
                                    /\ b["primary_mood"] \in {"mysterious", "curious"}

\* a "horror" result for a text with a suspense keyword and a horror keyword
\* came back as it was
C29_Witness ==
    /\ pp.stage = "once"
    /\ pp.prompt = <<"ginjang", "gam", "gongpo">>
    /\ pp.analysis = FullDict("horror")
    /\ pp.once = [raised |-> FALSE, analysis |-> FullDict("horror")]

\* C30: the signer is called only at the signer step, for the track select
\* returned, after a lookup that missed; the steps of a handler up to select
\* leave the URL cache and the recent tracks as they were and call no
\* signer, so a request that ends with the 404 of select has changed
\* neither and called no signer.
C30_OrderOfSteps ==
    /\ [][ obs'.signer_calls > obs.signer_calls
           => /\ pc = "sign"
              /\ req.selected_file # NoFile
              /\ req.selected_file = recent_tracks[Len(recent_tracks)]
              /\ obs.url_read \in {"absent", "expired"}
              /\ req.selected_file \notin DOMAIN url_cache
              /\ obs'.signer_calls = 1 ]_vars
    /\ [](pc \in {"post_process", "select", "url_lookup", "sign", "respond"}
            => obs.outcome # "none")
    /\ [](pc \in {"url_lookup", "sign", "respond"} <=> req.selected_file # NoFile)
    /\ [](pc \in {"sign", "respond"} <=> obs.url_read # "none")
    /\ [][ (pc \in {"gpt_lookup", "gpt_call", "post_process", "select"}
            /\ pc' \notin {"url_lookup", "sign", "respond"})
           => /\ url_cache' = url_cache
              /\ recent_tracks' = recent_tracks
              /\ obs.signer_calls = 0 ]_vars
    /\ [][ (pc # "idle" /\ pc' = "idle" /\ resp'.status = 404)
           => /\ pc = "select"
              /\ obs.signer_calls = 0
              /\ obs.url_read = "none"
              /\ url_cache' = url_cache
              /\ recent_tracks' = recent_tracks ]_vars

\* a request ended with a 404 while the URL cache and the recent tracks held
\* the track of a request before it
C30_Witness ==
    /\ pc = "idle"
    /\ resp.status = 404
    /\ DOMAIN url_cache # {}
    /\ recent_tracks # << >>

(***************************************************************************)
(* The moods of post-processing, reads of the caches, and what a request   *)
(* that fails leaves behind.                                               *)
(***************************************************************************)
MysteriousKeywords ==
    {mood_keywords[i].keyword : i \in {j \in 1..Len(mood_keywords) :
                                          mood_keywords[j].mood = "mysterious"}}

CuriousKeywords ==
    {mood_keywords[i].keyword : i \in {j \in 1..Len(mood_keywords) :
                                          mood_keywords[j].mood = "curious"}}

\* the position of the first pair of a mood whose keyword is in the text
\* (past the end of the list when there is none)
FirstMatch(prompt, mood) ==
    LET hits == {i \in 1..Len(mood_keywords) :
                    /\ mood_keywords[i].mood = mood
                    /\ Contains(Lower(prompt), mood_keywords[i].keyword)}
    IN  IF hits = {} THEN Len(mood_keywords) + 1
        ELSE CHOOSE i \in hits : \A j \in hits : i <= j

\* C31: the primary_mood a pass of post_process_mood returns is the one it
\* was given, "horror" or "mysterious"; it is "curious" or "suspense" only
\* when it was that before; a text with a curious keyword has a mysterious
\* keyword that the scan meets first.
C31_OnlyHorrorOrMysterious ==
    /\ (pp.stage # "input" /\ ~pp.once.raised /\ HasKey(pp.analysis, "primary_mood"))
       => /\ pp.once.analysis["primary_mood"]
                \in {pp.analysis["primary_mood"], "horror", "mysterious"}
          /\ pp.once.analysis["primary_mood"] \in {"curious", "suspense"}
                => pp.once.analysis["primary_mood"] = pp.analysis["primary_mood"]
    /\ (pp.stage = "twice" /\ ~pp.twice.raised /\ HasKey(pp.once.analysis, "primary_mood"))
       => pp.twice.analysis["primary_mood"]
             \in {pp.once.analysis["primary_mood"], "horror", "mysterious"}
    /\ (pp.stage # "off" /\ HasTrigger(Lower(pp.prompt), CuriousKeywords))
       => /\ HasTrigger(Lower(pp.prompt), MysteriousKeywords)
          /\ FirstMatch(pp.prompt, "mysterious") < FirstMatch(pp.prompt, "curious")

\* a "horror" result for a text with the curious keyword of two tokens
\* became "mysterious"
C31_Witness ==
    /\ pp.stage = "once"
    /\ pp.prompt = <<"gunggeum", "han">>
    /\ pp.analysis = FullDict("horror")
    /\ ~pp.once.raised
    /\ pp.once.analysis["primary_mood"] = "mysterious"

\* the keys of the classifier cache with their timestamps
Stamps(cache) == [i \in 1..Len(cache) |-> <<cache[i].key, cache[i].timestamp>>]

InReportedFolders ==
    /\ resp.mood \in DOMAIN MUSIC_LIBRARY
    /\ \E folder \in Range(MUSIC_LIBRARY[resp.mood]) : InFolder(resp.file_path, folder)

\* C33: the mood of a successful response is the primary_mood of its
\* analysis, the corrected mood select was called with; when that mood is
\* not in the library or has no track of its own, the track returned lies
\* in the folders of another mood ("peaceful" or a similar mood), not in
\* folders of the mood reported.
C33_ReportedMoodIsRequested ==
    /\ [][ (pc = "respond" /\ pc' = "idle" /\ resp'.status = 200)
           => /\ resp'.mood = req.mood
              /\ resp'.mood = resp'.analysis["primary_mood"]
              /\ resp'.file_path = req.selected_file ]_vars
    /\ [][ SelectReturns => req'.mood = Requested ]_vars
    /\ []((resp.status = 200 /\ "mood" \in DOMAIN resp)
          => /\ resp.mood = resp.analysis["primary_mood"]
             /\ (resp.mood \notin DOMAIN MUSIC_LIBRARY \/ FolderFiles(resp.mood) = {})
                => /\ ~InReportedFolders
                   /\ \E other \in DOMAIN MUSIC_LIBRARY \ {resp.mood} :
                         resp.file_path \in FolderFiles(other))

\* a response reports the mood "zzz", which the library does not have, with
\* a track of the folders of "isolation", the second mood similar to
\* "peaceful"
C33_Witness ==
    /\ pc = "idle"
    /\ resp.status = 200
    /\ "mood" \in DOMAIN resp
    /\ resp.mood = "zzz"
    /\ resp.analysis["primary_mood"] = "zzz"
    /\ FolderFiles("peaceful") = {}
    /\ resp.file_path \in FolderFiles("isolation")

\* C34: when the signer returns no URL the request ends with a 500 and
\* nothing is taken back: the caches and the recent tracks are what they
\* were after select, the classifier result of the request is in gpt_cache
\* and its track is the newest of the recent tracks.
C34_FailureNotRolledBack ==
    /\ [][ (SignEnds /\ req'.streaming_url.isNone)
           => /\ gpt_cache' = gpt_cache
              /\ recent_tracks' = recent_tracks ]_vars
    /\ [][ (pc = "respond" /\ pc' = "idle" /\ req.streaming_url.isNone)
           => /\ resp'.status = 500
              /\ gpt_cache' = gpt_cache
              /\ url_cache' = url_cache
              /\ recent_tracks' = recent_tracks
              /\ recent_tracks' # << >>
              /\ recent_tracks'[Len(recent_tracks')] = req.selected_file
              /\ obs.outcome \in {"stored", "hit"}
                    => get_prompt_hash(req.prompt) \in CacheKeys(gpt_cache') ]_vars

\* a request that stored its classifier result ended with the 500 of the
\* signer: the result is in the cache, and the newest recent track has no
\* URL in the URL cache
C34_Witness ==
    /\ pc = "idle"
    /\ resp.status = 500
    /\ resp.detail = "Failed to generate streaming URL"
    /\ prev.outcome = "stored"
    /\ get_prompt_hash(prev.prompt) \in CacheKeys(gpt_cache)
    /\ recent_tracks # << >>
    /\ recent_tracks[Len(recent_tracks)] \notin DOMAIN url_cache

NoDup(s) == \A i, j \in 1..Len(s) : s[i] = s[j] => i = j

\* the last n entries of a sequence
LastN(s, n) == IF Len(s) <= n THEN s ELSE SubSeq(s, Len(s) - n + 1, Len(s))

\* C35: from a catalog and a deque without duplicates, a select whose pool is
\* larger than the deque's capacity returns a track that is not in the
\* deque, so the deque it leaves (the last tracks returned, at most
\* RECENT_TRACKS_SIZE of them) and that deque with the track before its
\* oldest have no duplicates: by induction from the empty deque, none of
\* RECENT_TRACKS_SIZE + 1 tracks returned in a row repeats.  With a pool that
\* is not larger nothing is filtered: select can return the track it
\* returned last.
C35_NoRepeatWithLargePools ==
    /\ [][ (/\ SelectReturns
            /\ Cardinality(PoolOf(OwnMood)) > RECENT_TRACKS_SIZE
            /\ NoDup(all_files)
            /\ NoDup(recent_tracks))
           => /\ req'.selected_file \notin Range(recent_tracks)
              /\ NoDup(Append(recent_tracks, req'.selected_file))
              /\ recent_tracks' = LastN(Append(recent_tracks, req'.selected_file),
                                        RECENT_TRACKS_SIZE)
              /\ NoDup(recent_tracks') ]_vars
    /\ []((/\ pc = "select"
           /\ Cardinality(PoolOf(OwnMood)) <= RECENT_TRACKS_SIZE
           /\ recent_tracks # << >>
           /\ recent_tracks[Len(recent_tracks)] \in PoolOf(OwnMood))
          => ENABLED (Select /\ req'.selected_file = recent_tracks[Len(recent_tracks)]))

\* from a full deque of two different tracks of the pool, select returned
\* the only other track of the pool; the deque dropped its oldest track
C35_Witness ==
    /\ pc = "url_lookup"
    /\ req.mood = "horror"
    /\ Cardinality(PoolOf(req.mood)) = RECENT_TRACKS_SIZE + 1
    /\ Len(obs.recent_before) = RECENT_TRACKS_SIZE
    /\ NoDup(obs.recent_before)
    /\ Range(obs.recent_before) \subseteq PoolOf(req.mood)
    /\ NoDup(Append(obs.recent_before, req.selected_file))
    /\ recent_tracks = Append(Tail(obs.recent_before), req.selected_file)

(***************************************************************************)
(* The Flask service.                                                      *)
(***************************************************************************)
\* C36 (as stated): in the Flask service a signer that returns no URL gives
\* the caller a failure response: no success response has an empty
\* streaming_url.
C36_SignerFailureIsFailure ==
    (pc = "idle" /\ resp.status = 200 /\ "streaming_url" \in DOMAIN resp)
    => ~resp.streaming_url.isNone

=============================================================================
